---- MODULE Spec2Model ----
(***************************************************************************)
(* Verification model of the Shopify Liquid validation toolkit             *)
(* (scripts/ultimate-validator.py, scripts/liquid-syntax-validator.py,     *)
(* scripts/character-encoding-validator.py).                               *)
(*                                                                         *)
(* File contents are represented by what the validators' regular           *)
(* expressions extract from them: the filter names used, the output        *)
(* expressions with their surrounding context, the logic tags line by      *)
(* line, the identifiers following section.settings./block.settings., and  *)
(* the parsed schema JSON.                                                 *)
(***************************************************************************)
EXTENDS Integers, Sequences, FiniteSets, TLC

(***************************************************************************)
(* Bounds of the model                                                     *)
(***************************************************************************)
MaxFiles == 2
MaxCalls == 3
MaxTags == 4
MaxSettings == 2
MaxOutputs == 1

(***************************************************************************)
(* Generic helpers                                                         *)
(***************************************************************************)
SeqsUpTo(S, n) == UNION {[1..k -> S] : k \in 0..n}

Range(s) == {s[i] : i \in DOMAIN s}

RECURSIVE Flatten(_)
Flatten(ss) == IF ss = <<>> THEN <<>> ELSE Head(ss) \o Flatten(Tail(ss))

Prefix(s, k) == [i \in 1..k |-> s[i]]

RemoveAt(s, k) == [i \in 1..(Len(s) - 1) |-> IF i < k THEN s[i] ELSE s[i + 1]]

CountWhere(s, P(_)) == Cardinality({i \in DOMAIN s : P(s[i])})

(***************************************************************************)
(* Severity, validation levels, add_issue (ultimate-validator.py)          *)
(***************************************************************************)
Severity == {"info", "warning", "error", "critical"}

Levels == {"development", "production", "ultimate"}

level_config ==
  [development |-> {"critical", "error"},
   production  |-> {"critical", "error", "warning"},
   ultimate    |-> {"critical", "error", "warning", "info"}]

ValidationIssue(file_path, issue_type, severity) ==
  [file_path |-> file_path, issue_type |-> issue_type, severity |-> severity]

\* add_issue without the allow-list of the level
add_issue_unfiltered(iss, level, file_path, issue_type, severity) ==
  Append(iss, ValidationIssue(file_path, issue_type, severity))

\* add_issue putting the new issue in front of the list
add_issue_in_front(iss, level, file_path, issue_type, severity) ==
  IF level \in DOMAIN level_config /\ severity \notin level_config[level]
    THEN iss
    ELSE <<ValidationIssue(file_path, issue_type, severity)>> \o iss

\* add_issue: the issue is skipped when the level is configured and the
\* severity is not in the level's allowed_severities, appended otherwise.
add_issue(iss, level, file_path, issue_type, severity) ==
  IF level \in DOMAIN level_config /\ severity \notin level_config[level]
    THEN iss
    ELSE Append(iss, ValidationIssue(file_path, issue_type, severity))

\* A validator's requests to add_issue, in call order: [issue_type, severity].
Emit(issue_type, severity) == [issue_type |-> issue_type, severity |-> severity]

RECURSIVE AddAll(_, _, _, _)
AddAll(iss, level, file_path, emits) ==
  IF emits = <<>> THEN iss
  ELSE AddAll(add_issue(iss, level, file_path, Head(emits).issue_type, Head(emits).severity),
              level, file_path, Tail(emits))


(***************************************************************************)
(* File paths and file types (ultimate-validator.py)                       *)
(*                                                                         *)
(* A path is [dirs, name, ext]: the directory components, the file name    *)
(* and its extension; str(path) is the components joined by "/".           *)
(***************************************************************************)
theme_dirs == <<"layout", "templates", "sections", "blocks", "snippets", "assets", "config", "locales">>

WRAPPER_SECTIONS == {"apps.liquid", "_blocks.liquid"}

SCHEMA_REQUIRED_TYPES == {"section", "theme_block", "wrapper_section"}

SCHEMA_FORBIDDEN_TYPES == {"layout", "template_liquid", "template_json", "snippet", "asset", "config", "locale"}

AssetExts == {"css", "js", "png", "jpg", "jpeg", "gif", "svg", "webp", "woff", "woff2", "ttf", "otf", "eot"}

\* FILE_TYPE_PATTERNS, in priority order: the directory the relative path
\* starts with, the extensions accepted, the resulting type.
FILE_TYPE_PATTERNS ==
  << [dir |-> "layout",    exts |-> {"liquid"}, type |-> "layout"],
     [dir |-> "templates", exts |-> {"liquid"}, type |-> "template_liquid"],
     [dir |-> "templates", exts |-> {"json"},   type |-> "template_json"],
     [dir |-> "sections",  exts |-> {"liquid"}, type |-> "section"],
     [dir |-> "blocks",    exts |-> {"liquid"}, type |-> "theme_block"],
     [dir |-> "snippets",  exts |-> {"liquid"}, type |-> "snippet"],
     [dir |-> "assets",    exts |-> AssetExts,  type |-> "asset"],
     [dir |-> "config",    exts |-> {"json"},   type |-> "config"],
     [dir |-> "locales",   exts |-> {"json"},   type |-> "locale"] >>

\* '/<d>/' in path_str: d is a directory component that is not the first one.
DirInside(path, d) == \E i \in 2..Len(path.dirs) : path.dirs[i] = d

\* path_str.endswith('/<d>')
EndsWithDir(path, d) == Len(path.dirs) >= 1 /\ path.name = d

\* The components of relative_path: from the first '/<d>/' of the first
\* theme directory (in theme_dirs order) found in the path; the whole path
\* when none is found.
RelativePath(path) ==
  LET comps == Append(path.dirs, path.name)
      hits  == {k \in DOMAIN theme_dirs : DirInside(path, theme_dirs[k]) \/ EndsWithDir(path, theme_dirs[k])}
  IN IF hits = {} THEN comps
     ELSE LET k == CHOOSE x \in hits : \A y \in hits : x <= y
              d == theme_dirs[k]
          IN IF DirInside(path, d)
               THEN LET i == CHOOSE x \in 2..Len(path.dirs) :
                               /\ path.dirs[x] = d
                               /\ \A y \in 2..Len(path.dirs) : path.dirs[y] = d => x <= y
                    IN SubSeq(comps, i, Len(comps))
               ELSE <<d>>

PatternMatches(pat, rel, ext) == Len(rel) >= 2 /\ rel[1] = pat.dir /\ ext \in pat.exts

detect_file_type(path) ==
  LET rel  == RelativePath(path)
      hits == {k \in DOMAIN FILE_TYPE_PATTERNS : PatternMatches(FILE_TYPE_PATTERNS[k], rel, path.ext)}
  IN IF path.name \in WRAPPER_SECTIONS THEN "wrapper_section"
     ELSE IF hits = {} THEN "unknown"
     ELSE FILE_TYPE_PATTERNS[CHOOSE x \in hits : \A y \in hits : x <= y].type

is_legacy_template(path, content) ==
  /\ path.ext = "liquid"
  /\ content.schema.kind = "none"
  /\ content.legacy_markers

\* should_have_schema that requires a schema of section files only
should_have_schema_sections(file_type, path, content) == file_type = "section"

should_have_schema(file_type, path, content) ==
  IF file_type \in SCHEMA_REQUIRED_TYPES THEN TRUE
  ELSE IF file_type \in SCHEMA_FORBIDDEN_TYPES THEN FALSE
  ELSE IF file_type = "unknown" THEN ~is_legacy_template(path, content)
  ELSE FALSE


(***************************************************************************)
(* Parsed schema JSON                                                      *)
(*                                                                         *)
(* content.schema is [kind |-> "none"] (no {% schema %} block),            *)
(* [kind |-> "invalid"] (a block that json.loads rejects) or an object:    *)
(*   settings    : Seq of Setting                                          *)
(*   blocks      : Seq of [type, limit, settings, id]                      *)
(*   presets     : TRUE iff "presets" is a non-empty list                  *)
(*   templates   : TRUE iff the key "templates" is present                 *)
(*   enabled_on, disabled_on : <<>> when the key is absent, else           *)
(*                 <<tpls>> with tpls the list under its "templates" key   *)
(* A Setting is [id, type, min, max, step]; id "" stands for a missing id, *)
(* and min/max/step are <<>> when absent, <<n>> when present.  Numbers are *)
(* integers: multiples of a common unit, which the quotient does not see.  *)
(***************************************************************************)
NoSchema == [kind |-> "none"]

InvalidSchema == [kind |-> "invalid"]

Get(field, default) == IF field = <<>> THEN default ELSE field[1]

Truthy(field) == field # <<>>

valid_templates ==
  {"index", "product", "collection", "blog", "article", "page", "password", "gift_card",
   "customers/order", "customers/account", "customers/register", "customers/login",
   "customers/addresses", "cart", "search", "404"}

\* template.startswith('customers/'), on the template names of the model
StartsWithCustomers(t) ==
  t \in {"customers/order", "customers/account", "customers/register", "customers/login",
         "customers/addresses", "customers/reset_password"}

InvalidTemplateName(t) == t \notin valid_templates /\ ~StartsWithCustomers(t)

\* The result of a validator that can raise: the add_issue calls made before
\* it returned or raised, and whether it raised.
Outcome(emits, raises) == [emits |-> emits, raises |-> raises]

\* validate_app_blocks that rejects a limit on a block of any type
validate_app_blocks_any_type(schema) ==
  Flatten([i \in DOMAIN schema.blocks |->
     IF schema.blocks[i].limit THEN <<Emit("app_block_limit", "critical")>> ELSE <<>>])

validate_app_blocks(schema) ==
  Flatten([i \in DOMAIN schema.blocks |->
     LET block == schema.blocks[i] IN
       IF block.type = "@app"
         THEN (IF block.limit THEN <<Emit("app_block_limit", "critical")>> ELSE <<>>)
              \o (IF block.settings # <<>> THEN <<Emit("app_block_settings", "warning")>> ELSE <<>>)
         ELSE <<>>])

validate_wrapper_section(schema, filename) ==
  LET block_types == {schema.blocks[i].type : i \in DOMAIN schema.blocks}
      required_types == IF filename = "apps.liquid" THEN <<"@app">> ELSE <<"@app", "@theme">>
  IN IF filename \notin {"apps.liquid", "_blocks.liquid"} THEN <<>>
     ELSE Flatten([i \in DOMAIN required_types |->
                     IF required_types[i] \notin block_types
                       THEN <<Emit("wrapper_missing_block_type", "critical")>> ELSE <<>>])
          \o (IF ~schema.presets THEN <<Emit("wrapper_missing_presets", "critical")>> ELSE <<>>)
          \o (IF schema.templates THEN <<Emit("wrapper_invalid_templates", "critical")>> ELSE <<>>)

(***************************************************************************)
(* Logic tags of the content, line by line.  A tag is [name, end, dash]:   *)
(* {% name ... %} or {% endname %}, dash when written with whitespace      *)
(* control ({%- ... -%}).                                                  *)
(***************************************************************************)
NestingTags == <<"for", "if", "unless", "case", "capture", "tablerow", "paginate", "content_for">>

\* re.search(r'{%\s*<name>\s+', line): an opening tag with no dash
LineOpens(line, name) == \E i \in DOMAIN line : line[i].name = name /\ ~line[i].end /\ ~line[i].dash

\* re.search(r'{%\s*end<name>\s*%}', line)
LineCloses(line, name) == \E i \in DOMAIN line : line[i].name = name /\ line[i].end /\ ~line[i].dash

RECURSIVE NestOpen(_, _, _)
\* the opening_patterns loop over one line, from pattern k: st is
\* [stack, max_nesting]
NestOpen(line, k, st) ==
  IF k > Len(NestingTags) THEN st
  ELSE IF LineOpens(line, NestingTags[k])
    THEN LET stack == Append(st.stack, NestingTags[k])
         IN NestOpen(line, k + 1,
                     [stack |-> stack,
                      max_nesting |-> IF Len(stack) > st.max_nesting THEN Len(stack) ELSE st.max_nesting])
    ELSE NestOpen(line, k + 1, st)

RECURSIVE NestClose(_, _, _)
NestClose(line, k, st) ==
  IF k > Len(NestingTags) THEN st
  ELSE IF /\ LineCloses(line, NestingTags[k])
          /\ st.stack # <<>>
          /\ st.stack[Len(st.stack)] = NestingTags[k]
    THEN NestClose(line, k + 1, [st EXCEPT !.stack = SubSeq(st.stack, 1, Len(st.stack) - 1)])
    ELSE NestClose(line, k + 1, st)

RECURSIVE NestLines(_, _)
\* the loop over the lines; the stack after a line is computed before the
\* next line is read
NestLines(lines, st) ==
  IF lines = <<>> THEN st
  ELSE LET opened == NestOpen(Head(lines), 1, st)
           closed == NestClose(Head(lines), 1, opened)
       IN IF Len(opened.stack) >= 0 /\ Len(closed.stack) >= 0
            THEN NestLines(Tail(lines), closed) ELSE st

MaxNesting == 8

validate_block_nesting_depth(content) ==
  LET st == NestLines(content.lines, [stack |-> <<>>, max_nesting |-> 0])
  IN IF st.max_nesting > MaxNesting THEN <<Emit("excessive_nesting", "error")>> ELSE <<>>

\* validate_template_restrictions.  valid_templates is assigned only inside
\* "if enabled_on:", so the first template of a disabled_on list raises
\* UnboundLocalError when enabled_on is absent.
validate_template_restrictions(schema, file_type) ==
  LET en  == Truthy(schema.enabled_on)
      dis == Truthy(schema.disabled_on)
      ent == Get(schema.enabled_on, <<>>)
      dit == Get(schema.disabled_on, <<>>)
      bad(tpls) == Flatten([i \in DOMAIN tpls |->
                     IF InvalidTemplateName(tpls[i])
                       THEN <<Emit("invalid_template_name", "error")>> ELSE <<>>])
      part1 == IF en THEN bad(ent) ELSE <<>>
      raises == dis /\ ~en /\ dit # <<>>
      part2 == IF dis THEN bad(dit) ELSE <<>>
      part3 == IF en /\ dis /\ Range(ent) \cap Range(dit) # {}
                 THEN <<Emit("conflicting_template_restrictions", "error")>> ELSE <<>>
      part4 == IF file_type = "section" /\ (en \/ dis)
                 THEN <<Emit("section_template_restriction", "warning")>> ELSE <<>>
  IN IF raises THEN Outcome(part1, TRUE)
     ELSE Outcome(part1 \o part2 \o part3 \o part4, FALSE)


(***************************************************************************)
(* Output expressions {{ root.name | filters }} of the content.            *)
(*                                                                         *)
(* An expression is [root, name, filters, in_url, in_attr_text, in_schema, *)
(* in_style, in_class]: the object path before the last identifier, the    *)
(* last identifier, the set of filter names applied, and the results of    *)
(* the position tests _is_in_url_attribute, _is_in_attribute_text_context, *)
(* _is_in_schema_context, _is_in_style_block and _is_in_class_attribute.   *)
(* The substring and regex tests of the validators are tabulated on the    *)
(* roots, names and filter names the model uses.                           *)
(***************************************************************************)
Roots == {"block.settings", "settings", "product", "shop"}

Names == {"heading", "description", "title", "padding_top"}

FilterNames == {"escape", "image_url", "truncate", "upcase", "color_extract", "img_url", "frobnicate"}

OFFICIAL_FILTERS == {"escape", "image_url", "truncate", "upcase", "img_url"}

HALLUCINATED_FILTERS == {"color_extract"}

\* (?:settings|customer|form|article|product|collection|page)\. or
\* block\.settings\. found in the expression
IsUserContent(e) == e.root \in {"block.settings", "settings", "product"}

\* '| escape', '| strip_html', '| strip', '| json', '| t', '| money',
\* '| link_to:', '| date:' as substrings of the expression: '| t' is found
\* in every filter whose name starts with t.
HasSafeFilter(e) == e.filters \cap {"escape", "truncate"} # {}

\* '| image_url:', '| asset_url', '| file_url', '| url_for_', '| link_to_'
HasUrlFilter(e) == "image_url" \in e.filters

\* _is_numeric_calculation: divided_by|times|plus|minus|round|floor|ceil|abs
\* anywhere in the expression; none of the model's names or filters has one.
is_numeric_calculation(e) == FALSE

\* _is_richtext_content: the base expression ends in content, description,
\* body, text, rte, richtext or answer
is_richtext_content(e) == e.name \in {"description"}

\* _is_safe_value: numeric calculation, rich text, or a base expression in
\* which one of safe_patterns is found (padding, margin, color, id, ...)
is_safe_value(e) ==
  \/ is_numeric_calculation(e)
  \/ is_richtext_content(e)
  \/ e.name \in {"padding_top"}

is_safe_css_value(e) == is_safe_value(e)

\* _is_safe_html_class_value: layout_direction|style|variant|alignment|size|...
is_safe_html_class_value(e) == FALSE

\* _is_css_text_content: content|label|title|description|text|message|
\* caption|heading|subheading|paragraph|name found in the base expression
is_css_text_content(e) == e.name \in {"heading", "description", "title"}

EncodingIssue(issue_type, severity) == [issue_type |-> issue_type, severity |-> severity]

\* the decision with the style block tried before the other contexts
UnescapedVerdict_style_first(e) ==
  IF ~IsUserContent(e) THEN <<>>
  ELSE IF e.in_style
    THEN (IF is_safe_css_value(e) THEN <<>>
          ELSE IF ~HasSafeFilter(e) /\ is_css_text_content(e)
            THEN <<EncodingIssue("unescaped_css_text_content", "error")>> ELSE <<>>)
  ELSE IF e.in_url
    THEN (IF e.in_attr_text /\ ~HasSafeFilter(e)
            THEN <<EncodingIssue("unescaped_attribute_text", "error")>> ELSE <<>>)
  ELSE IF HasUrlFilter(e) THEN <<>>
  ELSE IF e.in_schema THEN <<>>
  ELSE IF e.in_class /\ is_safe_html_class_value(e) THEN <<>>
  ELSE IF is_safe_value(e) THEN <<>>
  ELSE IF ~HasSafeFilter(e)
    THEN <<EncodingIssue(IF e.root = "block.settings" THEN "unescaped_block_setting"
                                                    ELSE "unescaped_user_content", "error")>>
  ELSE <<>>

\* The unescaped-output decision for one expression: the issues the
\* cascade of _validate_unescaped_output creates for it (none or one).
UnescapedVerdict(e) ==
  IF ~IsUserContent(e) THEN <<>>
  ELSE IF e.in_url
    THEN (IF e.in_attr_text /\ ~HasSafeFilter(e)
            THEN <<EncodingIssue("unescaped_attribute_text", "error")>> ELSE <<>>)
  ELSE IF HasUrlFilter(e) THEN <<>>
  ELSE IF e.in_schema THEN <<>>
  ELSE IF e.in_style
    THEN (IF is_safe_css_value(e) THEN <<>>
          ELSE IF ~HasSafeFilter(e) /\ is_css_text_content(e)
            THEN <<EncodingIssue("unescaped_css_text_content", "error")>> ELSE <<>>)
  ELSE IF e.in_class /\ is_safe_html_class_value(e) THEN <<>>
  ELSE IF is_safe_value(e) THEN <<>>
  ELSE IF ~HasSafeFilter(e)
    THEN <<EncodingIssue(IF e.root = "block.settings" THEN "unescaped_block_setting"
                                                    ELSE "unescaped_user_content", "error")>>
  ELSE <<>>

\* CharacterEncodingValidator.add_issue appends the issue to self.issues
\* and returns it.  cv is the validator: [issues].
enc_add_issue(cv, issue) == [cv EXCEPT !.issues = Append(@, issue)]

\* _validate_unescaped_output: every issue found is created with add_issue
\* (so it is in self.issues) and is also returned in the result list.
\* Result: [cv, issues].
RECURSIVE validate_unescaped_output(_, _)
validate_unescaped_output(cv, outputs) ==
  IF outputs = <<>> THEN [cv |-> cv, issues |-> <<>>]
  ELSE LET found == UnescapedVerdict(Head(outputs))
           cv1   == IF found = <<>> THEN cv ELSE enc_add_issue(cv, found[1])
           rest  == validate_unescaped_output(cv1, Tail(outputs))
       IN [cv |-> rest.cv, issues |-> found \o rest.issues]

\* severity_mapping of validate_character_encoding
EncSeverityMap(sev) == IF sev = "info" THEN "warning" ELSE sev

\* validate_character_encoding: runs the standalone validator's passes on
\* the content, extends char_validator.issues with each pass's result, and
\* converts every entry of char_validator.issues with add_issue.  Of the
\* passes only _validate_unescaped_output reports on the modelled contents.
validate_character_encoding(content) ==
  LET cv0 == [issues |-> <<>>]
      r   == validate_unescaped_output(cv0, content.outputs)
      cv  == [r.cv EXCEPT !.issues = @ \o r.issues]
  IN [i \in DOMAIN cv.issues |->
        Emit(cv.issues[i].issue_type, EncSeverityMap(cv.issues[i].severity))]

(***************************************************************************)
(* Body validators of ultimate-validator.py                                *)
(***************************************************************************)
RECURSIVE SetToSeq(_)
SetToSeq(S) == IF S = {} THEN <<>>
               ELSE LET x == CHOOSE y \in S : TRUE IN <<x>> \o SetToSeq(S \ {x})

\* the filter names found after a pipe in the {{ }} and {% %} blocks
UsedFilters(content) ==
  content.tag_filters \cup UNION {content.outputs[i].filters : i \in DOMAIN content.outputs}

\* validate_liquid_filters that knows no hallucinated name
validate_liquid_filters_unknown_only(content) ==
  LET used == SetToSeq(UsedFilters(content))
  IN Flatten([i \in DOMAIN used |->
       IF used[i] \notin OFFICIAL_FILTERS THEN <<Emit("unknown_filter", "critical")>> ELSE <<>>])

validate_liquid_filters(content) ==
  LET used == SetToSeq(UsedFilters(content))
  IN Flatten([i \in DOMAIN used |->
       IF used[i] \in HALLUCINATED_FILTERS THEN <<Emit("hallucinated_filter", "critical")>>
       ELSE IF used[i] \notin OFFICIAL_FILTERS THEN <<Emit("unknown_filter", "critical")>>
       ELSE <<>>])

\* _get_suspicious_objects: the head identifier of {{ X. expressions
SuspiciousObjects == {"products", "items", "data", "config", "theme", "store", "user", "session"}

HeadIdentifier(root) ==
  CASE root = "block.settings" -> "block"
    [] root = "settings" -> "settings"
    [] root = "product" -> "product"
    [] OTHER -> "shop"

validate_shopify_objects(content) ==
  Flatten([i \in DOMAIN content.outputs |->
     IF HeadIdentifier(content.outputs[i].root) \in SuspiciousObjects
       THEN <<Emit("fake_object", "error")>> ELSE <<>>])

validate_required_layout_objects(content, file_type) ==
  IF file_type # "layout" THEN <<>>
  ELSE IF content.layout_objects THEN <<>>
  ELSE <<Emit("missing_required_layout_object", "error"),
         Emit("missing_required_layout_object", "error")>>

validate_hardcoded_routes(content) ==
  IF content.routes THEN <<Emit("hardcoded_route", "warning")>> ELSE <<>>

\* '| img_url' (and the other *_img_url names) found in the content
validate_deprecated_filters(content) ==
  IF "img_url" \in UsedFilters(content) THEN <<Emit("deprecated_filter", "warning")>> ELSE <<>>

\* validate_nesting_depth: per line, opening tags minus closing tags of
\* for|if|unless|case|capture|raw|comment|tablerow
DepthTags == {"for", "if", "unless", "case", "capture", "raw", "comment", "tablerow"}

LineDelta(line) ==
  Cardinality({i \in DOMAIN line : line[i].name \in DepthTags /\ ~line[i].dash /\ ~line[i].end})
  - Cardinality({i \in DOMAIN line : line[i].name \in DepthTags /\ ~line[i].dash /\ line[i].end})

RECURSIVE DepthWalk(_, _, _)
DepthWalk(lines, current_depth, max_depth) ==
  IF lines = <<>> THEN max_depth
  ELSE LET d == current_depth + LineDelta(Head(lines))
       IN DepthWalk(Tail(lines), d, IF d > max_depth THEN d ELSE max_depth)

validate_nesting_depth(content) ==
  IF DepthWalk(content.lines, 0, 0) > MaxNesting
    THEN <<Emit("excessive_nesting_depth", "warning")>> ELSE <<>>

\* validate_security_patterns: {{ settings.X }}, {{ product.title }},
\* {{ product.description }}, ... written with no filter at all; Error at
\* the production level, Warning at every other level.
SecurityMatch(e) ==
  /\ e.filters = {}
  /\ \/ e.root = "settings"
     \/ e.root = "product" /\ e.name \in {"title", "description"}

\* validate_security_patterns with the Error severity at ultimate as well
validate_security_patterns_ultimate(content, level) ==
  Flatten([i \in DOMAIN content.outputs |->
     IF SecurityMatch(content.outputs[i])
       THEN <<Emit("unescaped_user_content",
                   IF level \in {"production", "ultimate"} THEN "error" ELSE "warning")>>
       ELSE <<>>])

\* validate_security_patterns: Error at production, Warning at the other
\* levels
validate_security_patterns(content, level) ==
  Flatten([i \in DOMAIN content.outputs |->
     IF SecurityMatch(content.outputs[i])
       THEN <<Emit("unescaped_user_content", IF level = "production" THEN "error" ELSE "warning")>>
       ELSE <<>>])

\* validate_schema_placement: a second JSON parse of the schema block, for
\* the file types that require a schema
validate_schema_placement(content, file_type) ==
  IF file_type \in SCHEMA_REQUIRED_TYPES /\ content.schema.kind = "invalid"
    THEN <<Emit("malformed_schema_json", "critical")>> ELSE <<>>

validate_shopify_edge_cases(content, file_type, level) ==
  validate_nesting_depth(content)
  \o validate_security_patterns(content, level)
  \o validate_schema_placement(content, file_type)


(***************************************************************************)
(* validate_schema_integrity (ultimate-validator.py)                       *)
(***************************************************************************)
\* used_settings: the ids found after section.settings. and block.settings.
\* by re.findall on the whole content, the text of the schema block included
UsedSettings(content) ==
  content.used \cup content.schema_used \cup {content.outputs[i].name :
                       i \in {j \in DOMAIN content.outputs : content.outputs[j].root = "block.settings"}}

\* defined_settings: the truthy ids of the top-level settings and of the
\* settings of every block
DefinedSettings(schema) ==
  ({schema.settings[i].id : i \in DOMAIN schema.settings}
   \cup UNION {{schema.blocks[b].settings[i].id : i \in DOMAIN schema.blocks[b].settings} :
                 b \in DOMAIN schema.blocks})
  \ {""}

UndefinedSettingIssues(content, schema) ==
  LET undefined == SetToSeq(UsedSettings(content) \ DefinedSettings(schema))
  IN [i \in DOMAIN undefined |-> Emit("undefined_setting", "error")]

RangeLimit == 101

\* range_calc = (max_val - min_val) / step is a true division; for step > 0
\* range_calc > 101 iff max_val - min_val > 101 * step.
RangeViolation(setting) ==
  LET min_val == Get(setting.min, 0)
      max_val == Get(setting.max, 100)
      step    == Get(setting.step, 1)
  IN setting.type = "range" /\ step > 0 /\ (max_val - min_val) > RangeLimit * step

\* "Validate range settings": the loop over schema.get('settings', [])
RangeIssues(schema) ==
  Flatten([i \in DOMAIN schema.settings |->
     IF RangeViolation(schema.settings[i]) THEN <<Emit("invalid_range", "error")>> ELSE <<>>])

\* validate_schema_integrity that goes on to the setting cross-reference
\* after an invalid schema, with no setting defined
validate_schema_integrity_lenient(content, path) ==
  IF content.schema.kind = "invalid"
    THEN Outcome(<<Emit("invalid_schema", "critical")>> \o UndefinedSettingIssues(content, [settings |-> <<>>, blocks |-> <<>>]), FALSE)
    ELSE Outcome(<<>>, FALSE)

validate_schema_integrity(content, path) ==
  LET file_type   == detect_file_type(path)
      schema      == content.schema
      has_schema  == schema.kind # "none"
      should_have == should_have_schema(file_type, path, content)
  IN IF should_have /\ ~has_schema THEN Outcome(<<Emit("missing_schema", "error")>>, FALSE)
     ELSE IF ~should_have /\ has_schema THEN Outcome(<<Emit("unexpected_schema", "warning")>>, FALSE)
     ELSE IF ~has_schema THEN Outcome(<<>>, FALSE)
     ELSE IF schema.kind = "invalid" THEN Outcome(<<Emit("invalid_schema", "critical")>>, FALSE)
     ELSE LET first == validate_app_blocks(schema)
                       \o (IF file_type = "wrapper_section"
                             THEN validate_wrapper_section(schema, path.name) ELSE <<>>)
                       \o validate_block_nesting_depth(content)
              tr    == validate_template_restrictions(schema, file_type)
          IN IF tr.raises THEN Outcome(first \o tr.emits, TRUE)
             ELSE Outcome(first \o tr.emits
                          \o UndefinedSettingIssues(content, schema)
                          \o RangeIssues(schema), FALSE)

(***************************************************************************)
(* validate_file (ultimate-validator.py), in the stages between which the  *)
(* per-file timer of scan_directory can fire                               *)
(***************************************************************************)
\* validate_liquid_filters .. validate_theme_store
BodyChecks(content) ==
  validate_liquid_filters(content) \o validate_shopify_objects(content)

\* validate_required_layout_objects .. validate_shopify_edge_cases
RuleChecks(content, path, level) ==
  LET file_type == detect_file_type(path)
  IN validate_required_layout_objects(content, file_type)
     \o validate_hardcoded_routes(content)
     \o validate_deprecated_filters(content)
     \o validate_shopify_edge_cases(content, file_type, level)

\* "Check if file has critical issues": the issues of the whole list that
\* carry this path and are Critical or Error
FileHasCritical(iss, file_path) ==
  \E i \in DOMAIN iss : iss[i].file_path = file_path /\ iss[i].severity \in {"critical", "error"}


\* generate_final_report with a verdict that counts the Critical issues only
generate_final_report_critical(iss) ==
  Cardinality({i \in DOMAIN iss : iss[i].severity = "critical"}) = 0

\* generate_final_report's return value: True iff no Critical and no Error
\* issue is in the list
generate_final_report(iss) ==
  LET critical_issues == {i \in DOMAIN iss : iss[i].severity = "critical"}
      error_issues    == {i \in DOMAIN iss : iss[i].severity = "error"}
      total_critical  == Cardinality(critical_issues) + Cardinality(error_issues)
  IN total_critical = 0

\* extract_file_content: a file that cannot be opened or decoded yields one
\* Critical file_error issue and the empty string
extract_file_content(file) == IF file.readable THEN <<>> ELSE <<Emit("file_error", "critical")>>

ContentIsEmpty(file) == ~file.readable \/ file.content.empty

(***************************************************************************)
(* Contents and files of the model                                         *)
(***************************************************************************)
BlankContent ==
  [empty |-> FALSE, tag_filters |-> {}, routes |-> FALSE, outputs |-> <<>>, used |-> {}, schema_used |-> {},
   lines |-> <<>>, layout_objects |-> FALSE, legacy_markers |-> FALSE, schema |-> NoSchema]

Expr(root, name, filters) ==
  [root |-> root, name |-> name, filters |-> filters, in_url |-> FALSE, in_attr_text |-> FALSE,
   in_schema |-> FALSE, in_style |-> FALSE, in_class |-> FALSE]

BlankSchema ==
  [kind |-> "object", settings |-> <<>>, blocks |-> <<>>, presets |-> FALSE, templates |-> FALSE,
   enabled_on |-> <<>>, disabled_on |-> <<>>]

Setting(id, type, min, max, step) == [id |-> id, type |-> type, min |-> min, max |-> max, step |-> step]

\* {{ block.settings.heading }} in plain HTML
HeadingExpr == Expr("block.settings", "heading", {})

\* {{ block.settings.heading | escape }}
HeadingEscaped == Expr("block.settings", "heading", {"escape"})

\* {{ product.description }}
ProductDescription == Expr("product", "description", {})

\* a schema whose only restriction is "disabled_on": {"templates": ["index"]}
DisabledOnlySchema == [BlankSchema EXCEPT !.disabled_on = <<(<<"index">>)>>]

\* The kinds of file the directory scans of the model draw from: the
\* directory the file is in, whether it can be read, its content.
ScanKinds ==
  { [dir |-> "snippets", readable |-> TRUE,  content |-> BlankContent],
    [dir |-> "snippets", readable |-> TRUE,  content |-> [BlankContent EXCEPT !.empty = TRUE]],
    [dir |-> "snippets", readable |-> FALSE, content |-> BlankContent],
    [dir |-> "snippets", readable |-> TRUE,  content |-> [BlankContent EXCEPT !.outputs = <<ProductDescription>>]],
    [dir |-> "snippets", readable |-> TRUE,  content |-> [BlankContent EXCEPT !.outputs = <<HeadingExpr>>]],
    [dir |-> "sections", readable |-> TRUE,  content |-> [BlankContent EXCEPT !.schema = DisabledOnlySchema]] }

\* The kinds of file a direct validate_file call of the model is given
FileKinds ==
  ScanKinds \union
  { [dir |-> "snippets", readable |-> TRUE,  content |-> [BlankContent EXCEPT !.tag_filters = {"color_extract"}]],
    [dir |-> "snippets", readable |-> TRUE,  content |-> [BlankContent EXCEPT !.routes = TRUE]] }

FileNames == <<"f1.liquid", "f2.liquid", "f3.liquid", "f4.liquid">>

MkFile(kind, i) ==
  [path |-> [dirs |-> <<"theme", kind.dir>>, name |-> FileNames[i], ext |-> "liquid"],
   readable |-> kind.readable, content |-> kind.content]

\* The file lists rglob can discover: up to MaxFiles files, each of a kind
\* of ScanKinds, with distinct names.
FileLists ==
  {[i \in 1..n |-> MkFile(ks[i], i)] : <<n, ks>> \in
     UNION {{<<m, k>> : k \in [1..m -> ScanKinds]} : m \in 0..MaxFiles}}

PathsOf(files) == [i \in DOMAIN files |-> files[i].path]


\* validate_file as one call, with no timer running: the issue list after
\* it, what it adds to files_failed, and its return value (<<>> when the
\* call raises instead of returning)
validate_file(iss, level, file) ==
  LET path == file.path
      c    == file.content
      i1   == AddAll(iss, level, path, extract_file_content(file))
  IN IF ContentIsEmpty(file) THEN [issues |-> i1, failed |-> 1, result |-> <<FALSE>>]
     ELSE LET i2 == AddAll(i1, level, path, BodyChecks(c))
              o  == validate_schema_integrity(c, path)
              i3 == AddAll(i2, level, path, o.emits)
          IN IF o.raises THEN [issues |-> i3, failed |-> 0, result |-> <<>>]
             ELSE LET i4 == AddAll(i3, level, path, RuleChecks(c, path, level))
                      i5 == AddAll(i4, level, path, validate_character_encoding(c))
                      critical == FileHasCritical(i5, path)
                  IN [issues |-> i5, failed |-> IF critical THEN 1 ELSE 0, result |-> <<~critical>>]

\* The issue list scan_directory leaves behind for a file list when no
\* per-file timer fires
RECURSIVE ScanIssues(_, _, _)
ScanIssues(iss, level, files) ==
  IF files = <<>> THEN iss
  ELSE ScanIssues(validate_file(iss, level, Head(files)).issues, level, Tail(files))

(***************************************************************************)
(* The validator object and a running scan_directory                       *)
(***************************************************************************)
VARIABLES
  validation_level,  \* self.validation_level
  issues,            \* self.issues
  files_scanned,     \* self.files_scanned
  files_failed,      \* self.files_failed
  pc,                \* where scan_directory is
  liquid_files,      \* the files of the scan, after the max_files cut
  idx,               \* index of the file of the current loop iteration
  timeout_per_file,  \* the timeout_per_file argument
  alarm,             \* TRUE while the signal.alarm timer is armed
  success,           \* the local "success" of the loop body
  report,            \* <<>>, or <<v>> once generate_final_report returned v
  validated,         \* paths handed to validate_file by the scan, in order
  marked_failed,     \* paths the scan loop counted in files_failed
  timer_fired,       \* paths during whose iteration the timer fired
  calls,             \* number of direct calls made by the client
  last_call,         \* the last direct call, its arguments and result
  last_before        \* self.issues before the last direct call

scan_vars == <<pc, liquid_files, idx, timeout_per_file, alarm, success, validated, marked_failed, timer_fired>>

api_vars == <<calls, last_call, last_before>>

\* The LiquidSyntaxValidator object and the text it is given
VARIABLES
  tp_content,        \* the content argument: the logic tags of the text, in order
  tp_issues,         \* self.issues of the LiquidSyntaxValidator
  tp_result,         \* <<>>, or <<v>> once validate_tag_pairing returned v
  tp_pc,             \* "ready", "checked" or "cleared"
  tp_original,       \* the content before a closing tag was removed from it
  tp_removed,        \* position of the removed closing tag, 0 when none was
  validation_cache   \* self.validation_cache: the entries [content, level, result]

tag_vars == <<tp_content, tp_issues, tp_result, tp_pc, tp_original, tp_removed, validation_cache>>

validator_vars == <<validation_level, issues, files_scanned, files_failed, report>>

vars == <<validator_vars, scan_vars, api_vars, tag_vars>>

NoCall == [op |-> "none", path |-> <<>>, severity |-> "", file |-> <<>>, result |-> <<>>]

\* UltimateShopifyLiquidValidator.__init__
InitValidator ==
  /\ validation_level \in Levels
  /\ issues = <<>>
  /\ files_scanned = 0
  /\ files_failed = 0
  /\ report = <<>>

InitScan ==
  /\ pc = "idle"
  /\ liquid_files = <<>>
  /\ idx = 1
  /\ timeout_per_file = 0
  /\ alarm = FALSE
  /\ success = FALSE
  /\ validated = <<>>
  /\ marked_failed = {}
  /\ timer_fired = {}

InitApi ==
  /\ calls = 0
  /\ last_call = NoCall
  /\ last_before = <<>>

CurFile == liquid_files[idx]

CurPath == liquid_files[idx].path


(***************************************************************************)
(* scan_directory, one action per step between which the SIGALRM timer     *)
(* can interrupt it                                                        *)
(***************************************************************************)
\* The entry of scan_directory: rglob found "files" (the _archive ones
\* already left out); no file at all returns False without a report;
\* max_files (0 for None) cuts the list.
scan_directory(files, max_files, timeout) ==
  /\ pc = "idle"
  /\ timeout_per_file' = timeout
  /\ IF files = <<>>
       THEN /\ pc' = "returned"
            /\ liquid_files' = files
       ELSE /\ pc' = "loop"
            /\ liquid_files' = IF max_files > 0 /\ Len(files) > max_files
                                 THEN Prefix(files, max_files) ELSE files
  /\ UNCHANGED <<validation_level, issues, files_scanned, files_failed, report,
                 idx, alarm, success, validated, marked_failed, timer_fired>>
  /\ UNCHANGED <<api_vars, tag_vars>>

\* The head of a loop iteration: files_scanned += 1, the alarm is armed
\* when timeout_per_file > 0, and validate_file is entered.
LoopHead ==
  /\ pc = "loop"
  /\ idx <= Len(liquid_files)
  /\ files_scanned' = files_scanned + 1
  /\ alarm' = (timeout_per_file > 0)
  /\ validated' = Append(validated, CurPath)
  /\ pc' = "vf_extract"
  /\ UNCHANGED <<validation_level, issues, files_failed, report, liquid_files, idx,
                 timeout_per_file, success, marked_failed, timer_fired>>
  /\ UNCHANGED <<api_vars, tag_vars>>

\* validate_file: files_scanned += 1, extract_file_content, "if not content"
VfExtract ==
  /\ pc = "vf_extract"
  /\ files_scanned' = files_scanned + 1
  /\ issues' = AddAll(issues, validation_level, CurPath, extract_file_content(CurFile))
  /\ IF ContentIsEmpty(CurFile)
       THEN /\ files_failed' = files_failed + 1
            /\ success' = FALSE
            /\ pc' = "try_after"
       ELSE /\ pc' = "vf_body"
            /\ UNCHANGED <<files_failed, success>>
  /\ UNCHANGED <<validation_level, report, liquid_files, idx, timeout_per_file, alarm,
                 validated, marked_failed, timer_fired>>
  /\ UNCHANGED <<api_vars, tag_vars>>

\* validate_file: validate_liquid_filters .. validate_theme_store
VfBody ==
  /\ pc = "vf_body"
  /\ issues' = AddAll(issues, validation_level, CurPath, BodyChecks(CurFile.content))
  /\ pc' = "vf_schema"
  /\ UNCHANGED <<validation_level, files_scanned, files_failed, report, liquid_files, idx,
                 timeout_per_file, alarm, success, validated, marked_failed, timer_fired>>
  /\ UNCHANGED <<api_vars, tag_vars>>

\* validate_file: validate_schema_integrity, which can raise
VfSchema ==
  /\ pc = "vf_schema"
  /\ LET o == validate_schema_integrity(CurFile.content, CurPath)
     IN /\ issues' = AddAll(issues, validation_level, CurPath, o.emits)
        /\ pc' = IF o.raises THEN "h_exc" ELSE "vf_rules"
  /\ UNCHANGED <<validation_level, files_scanned, files_failed, report, liquid_files, idx,
                 timeout_per_file, alarm, success, validated, marked_failed, timer_fired>>
  /\ UNCHANGED <<api_vars, tag_vars>>

\* validate_file: validate_required_layout_objects .. validate_shopify_edge_cases
VfRules ==
  /\ pc = "vf_rules"
  /\ issues' = AddAll(issues, validation_level, CurPath,
                      RuleChecks(CurFile.content, CurPath, validation_level))
  /\ pc' = "vf_charenc"
  /\ UNCHANGED <<validation_level, files_scanned, files_failed, report, liquid_files, idx,
                 timeout_per_file, alarm, success, validated, marked_failed, timer_fired>>
  /\ UNCHANGED <<api_vars, tag_vars>>

\* validate_file: validate_character_encoding
VfCharenc ==
  /\ pc = "vf_charenc"
  /\ issues' = AddAll(issues, validation_level, CurPath, validate_character_encoding(CurFile.content))
  /\ pc' = "vf_verdict"
  /\ UNCHANGED <<validation_level, files_scanned, files_failed, report, liquid_files, idx,
                 timeout_per_file, alarm, success, validated, marked_failed, timer_fired>>
  /\ UNCHANGED <<api_vars, tag_vars>>

\* validate_file: "Check if file has critical issues" and the return
VfVerdict ==
  /\ pc = "vf_verdict"
  /\ IF FileHasCritical(issues, CurPath)
       THEN /\ files_failed' = files_failed + 1
            /\ success' = FALSE
       ELSE /\ success' = TRUE
            /\ UNCHANGED files_failed
  /\ pc' = "try_after"
  /\ UNCHANGED <<validation_level, issues, files_scanned, report, liquid_files, idx,
                 timeout_per_file, alarm, validated, marked_failed, timer_fired>>
  /\ UNCHANGED <<api_vars, tag_vars>>

\* the rest of the try block: "if not success: self.files_failed += 1"
TryAfter ==
  /\ pc = "try_after"
  /\ IF ~success
       THEN /\ files_failed' = files_failed + 1
            /\ marked_failed' = marked_failed \union {CurPath}
       ELSE UNCHANGED <<files_failed, marked_failed>>
  /\ pc' = "finally"
  /\ UNCHANGED <<validation_level, issues, files_scanned, report, liquid_files, idx,
                 timeout_per_file, alarm, success, validated, timer_fired>>
  /\ UNCHANGED <<api_vars, tag_vars>>

\* except TimeoutError
HandleTimeout ==
  /\ pc = "h_timeout"
  /\ issues' = add_issue(issues, validation_level, CurPath, "validation_timeout", "warning")
  /\ files_failed' = files_failed + 1
  /\ marked_failed' = marked_failed \union {CurPath}
  /\ pc' = "finally"
  /\ UNCHANGED <<validation_level, files_scanned, report, liquid_files, idx,
                 timeout_per_file, alarm, success, validated, timer_fired>>
  /\ UNCHANGED <<api_vars, tag_vars>>

\* except Exception
HandleException ==
  /\ pc = "h_exc"
  /\ files_failed' = files_failed + 1
  /\ marked_failed' = marked_failed \union {CurPath}
  /\ pc' = "finally"
  /\ UNCHANGED <<validation_level, issues, files_scanned, report, liquid_files, idx,
                 timeout_per_file, alarm, success, validated, timer_fired>>
  /\ UNCHANGED <<api_vars, tag_vars>>

\* finally: signal.alarm(0), and the loop goes to the next file
Finally ==
  /\ pc = "finally"
  /\ alarm' = FALSE
  /\ idx' = idx + 1
  /\ pc' = "loop"
  /\ UNCHANGED <<validation_level, issues, files_scanned, files_failed, report, liquid_files,
                 timeout_per_file, success, validated, marked_failed, timer_fired>>
  /\ UNCHANGED <<api_vars, tag_vars>>

\* after the loop: return self.generate_final_report()
LoopExit ==
  /\ pc = "loop"
  /\ idx > Len(liquid_files)
  /\ report' = <<generate_final_report(issues)>>
  /\ pc' = "returned"
  /\ UNCHANGED <<validation_level, issues, files_scanned, files_failed, liquid_files, idx,
                 timeout_per_file, alarm, success, validated, marked_failed, timer_fired>>
  /\ UNCHANGED <<api_vars, tag_vars>>


(***************************************************************************)
(* The SIGALRM timer: timeout_handler raises TimeoutError at whatever      *)
(* statement runs when the alarm goes off                                  *)
(***************************************************************************)
\* Inside the try block, outside any inner handler: the TimeoutError
\* reaches "except TimeoutError".
TimerPropagates ==
  /\ alarm
  /\ pc \in {"vf_extract", "vf_body", "vf_schema", "vf_rules", "vf_charenc", "vf_verdict", "try_after"}
  /\ alarm' = FALSE
  /\ timer_fired' = timer_fired \union {CurPath}
  /\ pc' = "h_timeout"
  /\ UNCHANGED <<validation_level, issues, files_scanned, files_failed, report, liquid_files, idx,
                 timeout_per_file, success, validated, marked_failed>>
  /\ UNCHANGED <<api_vars, tag_vars>>

\* Inside the try of extract_file_content: its "except Exception" takes
\* the TimeoutError, records file_error and returns "", so validate_file
\* returns False.
TimerInExtract ==
  /\ alarm
  /\ pc = "vf_extract"
  /\ alarm' = FALSE
  /\ timer_fired' = timer_fired \union {CurPath}
  /\ files_scanned' = files_scanned + 1
  /\ issues' = add_issue(issues, validation_level, CurPath, "file_error", "critical")
  /\ files_failed' = files_failed + 1
  /\ success' = FALSE
  /\ pc' = "try_after"
  /\ UNCHANGED <<validation_level, report, liquid_files, idx, timeout_per_file, validated, marked_failed>>
  /\ UNCHANGED <<api_vars, tag_vars>>

\* Inside the try of validate_character_encoding: its "except Exception"
\* takes the TimeoutError after k of the converted issues were added, and
\* validate_file goes on.
TimerInCharenc ==
  /\ alarm
  /\ pc = "vf_charenc"
  /\ alarm' = FALSE
  /\ timer_fired' = timer_fired \union {CurPath}
  /\ \E k \in 0..Len(validate_character_encoding(CurFile.content)) :
       issues' = add_issue(AddAll(issues, validation_level, CurPath,
                                  Prefix(validate_character_encoding(CurFile.content), k)),
                           validation_level, CurPath, "character_validation_error", "warning")
  /\ pc' = "vf_verdict"
  /\ UNCHANGED <<validation_level, files_scanned, files_failed, report, liquid_files, idx,
                 timeout_per_file, success, validated, marked_failed>>
  /\ UNCHANGED <<api_vars, tag_vars>>

\* Inside "except Exception", or in "finally" before signal.alarm(0): no
\* handler is left, the TimeoutError leaves scan_directory.
TimerOutsideTry ==
  /\ alarm
  /\ pc \in {"h_exc", "finally"}
  /\ alarm' = FALSE
  /\ timer_fired' = timer_fired \union {CurPath}
  /\ pc' = "raised"
  /\ UNCHANGED <<validation_level, issues, files_scanned, files_failed, report, liquid_files, idx,
                 timeout_per_file, success, validated, marked_failed>>
  /\ UNCHANGED <<api_vars, tag_vars>>

(***************************************************************************)
(* Direct calls by a client of the validator                               *)
(***************************************************************************)
DirectPath == [dirs |-> <<"theme", "snippets">>, name |-> FileNames[1], ext |-> "liquid"]

\* self.add_issue(file_path, line, issue_type, severity, message)
AddIssueCall(file_path, issue_type, severity) ==
  /\ calls < MaxCalls
  /\ calls' = calls + 1
  /\ last_before' = issues
  /\ issues' = add_issue(issues, validation_level, file_path, issue_type, severity)
  /\ last_call' = [NoCall EXCEPT !.op = "add_issue", !.path = <<file_path>>, !.severity = severity]
  /\ UNCHANGED <<validation_level, files_scanned, files_failed, report>>
  /\ UNCHANGED <<scan_vars, tag_vars>>

\* self.validate_file(file_path)
ValidateFileCall(file) ==
  /\ calls < MaxCalls
  /\ calls' = calls + 1
  /\ last_before' = issues
  /\ LET r == validate_file(issues, validation_level, file)
     IN /\ issues' = r.issues
        /\ files_scanned' = files_scanned + 1
        /\ files_failed' = files_failed + r.failed
        /\ last_call' = [NoCall EXCEPT !.op = "validate_file", !.path = <<file.path>>,
                                       !.file = <<file>>, !.result = r.result]
  /\ UNCHANGED <<validation_level, report>>
  /\ UNCHANGED <<scan_vars, tag_vars>>

\* self.generate_final_report()
GenerateFinalReportCall ==
  /\ calls < MaxCalls
  /\ calls' = calls + 1
  /\ last_before' = issues
  /\ report' = <<generate_final_report(issues)>>
  /\ last_call' = [NoCall EXCEPT !.op = "generate_final_report", !.result = <<generate_final_report(issues)>>]
  /\ UNCHANGED <<validation_level, issues, files_scanned, files_failed>>
  /\ UNCHANGED <<scan_vars, tag_vars>>


(***************************************************************************)
(* validate_tag_pairing (liquid-syntax-validator.py)                       *)
(*                                                                         *)
(* The text is the sequence of its {% ... %} tags.  A tag is [name, end,   *)
(* dash]: {% name ... %}, {% endname %}, and with dash the forms that      *)
(* open with the whitespace-control mark, {%- name ... %}, {%- endname %}. *)
(***************************************************************************)
Tag(name, end, dash) == [name |-> name, end |-> end, dash |-> dash]

\* PAIRED_TAGS with every tag of the self-closing set taken out
PAIRED_TAGS_without_case ==
  {"if", "unless", "for", "capture", "tablerow", "paginate", "form", "style",
   "comment", "schema", "raw"}

PAIRED_TAGS ==
  {"if", "unless", "case", "for", "capture", "tablerow", "paginate", "form", "style",
   "comment", "schema", "raw"}

Min(S) == CHOOSE x \in S : \A y \in S : x <= y

\* LIQUID_TAG_PATTERNS['raw_tag'] / ['comment_tag'] .sub('', content): from
\* the first {% name %} to the first {% endname %} after it, non-greedy,
\* repeated on what follows; neither pattern admits the dash.
RECURSIVE RemoveBlocks(_, _)
RemoveBlocks(toks, name) ==
  LET opens == {i \in DOMAIN toks : toks[i] = Tag(name, FALSE, FALSE)}
  IN IF opens = {} THEN toks
     ELSE LET o      == Min(opens)
              closes == {j \in DOMAIN toks : j > o /\ toks[j] = Tag(name, TRUE, FALSE)}
          IN IF closes = {} THEN toks
             ELSE SubSeq(toks, 1, o - 1)
                  \o RemoveBlocks(SubSeq(toks, Min(closes) + 1, Len(toks)), name)

\* logic_tag's group(1).strip().split()[0]: the pattern lets only white
\* space follow "{%", so a tag written {%- ... has the name "-"
ExtractTag(t) == IF t.dash THEN Tag("-", FALSE, FALSE) ELSE Tag(t.name, t.end, FALSE)

ExtractTags(content) ==
  LET content_cleaned == RemoveBlocks(RemoveBlocks(content, "raw"), "comment")
  IN [i \in DOMAIN content_cleaned |-> ExtractTag(content_cleaned[i])]

SyntaxIssue(error_type, tag_name) == [error_type |-> error_type, severity |-> "error", tag |-> tag_name]

\* the loop with a mismatched closing tag also popping the stack
RECURSIVE PairTags_mismatch_pops(_, _, _)
PairTags_mismatch_pops(tags, stack, iss) ==
  IF tags = <<>> THEN [stack |-> stack, issues |-> iss]
  ELSE LET tag == Head(tags)
       IN IF ~tag.end /\ tag.name \in PAIRED_TAGS
            THEN PairTags_mismatch_pops(Tail(tags), Append(stack, tag.name), iss)
          ELSE IF tag.end
            THEN IF stack = <<>>
                   THEN PairTags_mismatch_pops(Tail(tags), stack,
                          Append(iss, SyntaxIssue("unmatched_end_tag", tag.name)))
                 ELSE IF stack[Len(stack)] # tag.name
                   THEN PairTags_mismatch_pops(Tail(tags), Prefix(stack, Len(stack) - 1),
                          Append(iss, SyntaxIssue("mismatched_tags", tag.name)))
                 ELSE PairTags_mismatch_pops(Tail(tags), Prefix(stack, Len(stack) - 1), iss)
          ELSE PairTags_mismatch_pops(Tail(tags), stack, iss)

\* the "for tag in tags" loop: the stack and the issues after it
RECURSIVE PairTags(_, _, _)
PairTags(tags, stack, iss) ==
  IF tags = <<>> THEN [stack |-> stack, issues |-> iss]
  ELSE LET tag == Head(tags)
       IN IF ~tag.end /\ tag.name \in PAIRED_TAGS
            THEN PairTags(Tail(tags), Append(stack, tag.name), iss)
          ELSE IF tag.end
            THEN IF stack = <<>>
                   THEN PairTags(Tail(tags), stack, Append(iss, SyntaxIssue("unmatched_end_tag", tag.name)))
                 ELSE IF stack[Len(stack)] # tag.name
                   THEN PairTags(Tail(tags), stack, Append(iss, SyntaxIssue("mismatched_tags", tag.name)))
                 ELSE PairTags(Tail(tags), Prefix(stack, Len(stack) - 1), iss)
          ELSE PairTags(Tail(tags), stack, iss)

\* the issues validate_tag_pairing records and the value it returns
validate_tag_pairing(content) ==
  LET walked   == PairTags(ExtractTags(content), <<>>, <<>>)
      unclosed == [i \in DOMAIN walked.stack |-> SyntaxIssue("unclosed_tag", walked.stack[i])]
      recorded == walked.issues \o unclosed
  IN [issues |-> recorded, result |-> (recorded = <<>>)]

\* The tags of the texts of the model
TagTokens ==
  {Tag("if", e, d) : e \in BOOLEAN, d \in BOOLEAN}
    \union {Tag(n, e, FALSE) : n \in {"for", "comment"}, e \in BOOLEAN}
    \union {Tag("assign", FALSE, FALSE)}

InitTags ==
  /\ tp_content \in SeqsUpTo(TagTokens, MaxTags)
  /\ tp_issues = <<>>
  /\ tp_result = <<>>
  /\ tp_pc = "ready"
  /\ tp_original = tp_content
  /\ tp_removed = 0
  /\ validation_cache = {}

\* validator.validate_tag_pairing(content, file_path)
ValidateTagPairing ==
  /\ tp_pc = "ready"
  /\ LET r == validate_tag_pairing(tp_content)
     IN /\ tp_issues' = tp_issues \o r.issues
        /\ tp_result' = <<r.result>>
  /\ tp_pc' = "checked"
  /\ UNCHANGED <<tp_content, tp_original, tp_removed, validation_cache>>
  /\ UNCHANGED <<validator_vars, scan_vars, api_vars>>

\* validator.clear_issues()
clear_issues ==
  /\ tp_pc = "checked"
  /\ tp_removed = 0
  /\ tp_issues' = <<>>
  /\ tp_pc' = "cleared"
  /\ UNCHANGED <<tp_content, tp_result, tp_original, tp_removed, validation_cache>>
  /\ UNCHANGED <<validator_vars, scan_vars, api_vars>>

\* The text is edited: the closing tag at position k is deleted, and the
\* validator is ready for the edited text.
RemoveClosingTag(k) ==
  /\ tp_pc = "cleared"
  /\ k \in DOMAIN tp_content
  /\ tp_content[k].end
  /\ tp_content' = RemoveAt(tp_content, k)
  /\ tp_removed' = k
  /\ tp_result' = <<>>
  /\ tp_pc' = "ready"
  /\ UNCHANGED <<tp_issues, tp_original, validation_cache>>
  /\ UNCHANGED <<validator_vars, scan_vars, api_vars>>


(***************************************************************************)
(* The specifications                                                      *)
(***************************************************************************)
\* no LiquidSyntaxValidator at work
IdleTags ==
  /\ tp_content = <<>>
  /\ tp_issues = <<>>
  /\ tp_result = <<>>
  /\ tp_pc = "idle"
  /\ tp_original = <<>>
  /\ tp_removed = 0
  /\ validation_cache = {}

\* A validator of some level, as main() constructs it
Init == InitValidator /\ InitScan /\ InitApi /\ IdleTags

\* main(): one scan_directory call; --max-files absent or 1, --timeout 0 or 3
Next ==
  \/ \E files \in FileLists, max_files \in {0, 1}, timeout \in {0, 3} :
       scan_directory(files, max_files, timeout)
  \/ LoopHead
  \/ VfExtract
  \/ VfBody
  \/ VfSchema
  \/ VfRules
  \/ VfCharenc
  \/ VfVerdict
  \/ TryAfter
  \/ HandleTimeout
  \/ HandleException
  \/ Finally
  \/ LoopExit
  \/ TimerPropagates
  \/ TimerInExtract
  \/ TimerInCharenc
  \/ TimerOutsideTry

Spec == Init /\ [][Next]_vars

\* A client that calls the validator's methods directly, MaxCalls times
ApiFiles == {MkFile(k, 1) : k \in FileKinds}

NextApi ==
  \/ \E severity \in Severity : AddIssueCall(DirectPath, "custom", severity)
  \/ \E file \in ApiFiles : ValidateFileCall(file)
  \/ GenerateFinalReportCall

SpecApi == Init /\ [][NextApi]_vars

\* validate_tag_pairing on the texts of up to MaxTags tags
InitTagPairing ==
  /\ validation_level = "ultimate"
  /\ issues = <<>>
  /\ files_scanned = 0
  /\ files_failed = 0
  /\ report = <<>>
  /\ InitScan
  /\ InitApi
  /\ InitTags

NextTags ==
  \/ ValidateTagPairing
  \/ clear_issues
  \/ \E k \in 1..(MaxTags + 1) : RemoveClosingTag(k)

SpecTags == InitTagPairing /\ [][NextTags]_vars

\* validate_file on one section file whose schema parses
RangeSettings ==
  {Setting("size", "range", mn, mx, st) :
     mn \in {<<>>, <<1>>}, mx \in {<<>>, <<102>>, <<203>>}, st \in {<<>>, <<0>>, <<2>>}}
    \union {Setting("size", "text", <<>>, <<>>, <<>>)}

SchemaBlocks ==
  {<<>>} \union
  {<<[type |-> "slide", limit |-> FALSE, id |-> "",
      settings |-> <<Setting("width", "range", <<>>, mx, <<>>)>>]>> : mx \in {<<>>, <<203>>}}

SchemaFiles ==
  {[path |-> [dirs |-> <<"theme", "sections">>, name |-> FileNames[1], ext |-> "liquid"],
    readable |-> TRUE,
    content |-> [BlankContent EXCEPT !.schema =
                   [BlankSchema EXCEPT !.settings = ss, !.blocks = bs, !.disabled_on = d]]] :
     ss \in SeqsUpTo(RangeSettings, MaxSettings), bs \in SchemaBlocks,
     d \in {<<>>, <<(<<"index">>)>>}}

NextSchema == \E file \in SchemaFiles : calls = 0 /\ ValidateFileCall(file)

SpecSchema == Init /\ [][NextSchema]_vars

\* validate_file on one snippet whose body is up to MaxOutputs output
\* expressions
Exprs ==
  {[root |-> r, name |-> n, filters |-> f, in_url |-> ctx = "url" \/ ctx = "url_text",
    in_attr_text |-> ctx = "url_text", in_schema |-> FALSE, in_style |-> ctx = "style",
    in_class |-> FALSE] :
     r \in {"block.settings", "product", "shop"}, n \in {"heading", "description"},
     f \in {{}, {"escape"}, {"upcase"}}, ctx \in {"html", "url", "url_text", "style"}}

EncodingFiles ==
  {[path |-> DirectPath, readable |-> TRUE, content |-> [BlankContent EXCEPT !.outputs = es]] :
     es \in SeqsUpTo(Exprs, MaxOutputs)}

NextEncoding == \E file \in EncodingFiles : calls = 0 /\ ValidateFileCall(file)

SpecEncoding == Init /\ [][NextEncoding]_vars


(***************************************************************************)
(* Properties                                                              *)
(***************************************************************************)
HasSeverity(iss, sevs) == \E i \in DOMAIN iss : iss[i].severity \in sevs

IssuesOf(iss, file_path) == {i \in DOMAIN iss : iss[i].file_path = file_path}

CountType(iss, types) == Cardinality({i \in DOMAIN iss : iss[i].issue_type \in types})

\* the verdict of a scan of the current file list at a level, no timer firing
VerdictAt(level) == generate_final_report(ScanIssues(<<>>, level, liquid_files))

ScanReturnedUntimed == pc = "returned" /\ report # <<>> /\ timer_fired = {}

\* The step-by-step scan and the one-call validate_file agree when no
\* timer fires.
ScanIssuesAgree ==
  ScanReturnedUntimed => issues = ScanIssues(<<>>, validation_level, liquid_files)

\* C1: generate_final_report returns False if and only if the issue list
\* holds at least one Critical or Error issue; Warning and Info issues alone
\* never make it return False.
C1_ReportVerdict ==
  last_call.op = "generate_final_report" =>
    (last_call.result = <<FALSE>> <=> HasSeverity(issues, {"critical", "error"}))

\* C1 witness: a report over a list that holds only a Warning and an Info
\* issue, which passes.
C1_Witness ==
  /\ last_call.op = "generate_final_report"
  /\ last_call.result = <<TRUE>>
  /\ HasSeverity(issues, {"warning"})
  /\ HasSeverity(issues, {"info"})

\* C2 as stated: for the same files the verdict of a run is the same at the
\* development, production and ultimate levels.
C2_SameVerdictAtEveryLevel ==
  ScanReturnedUntimed => \A level \in Levels : VerdictAt(level) = report[1]

HasSecurityMatch(files) ==
  \E i \in DOMAIN files : \E j \in DOMAIN files[i].content.outputs :
     SecurityMatch(files[i].content.outputs[j])

\* C2 amended: for the same files, a scan in which no timer fires has the
\* same verdict at development and at ultimate; a scan that passes at
\* production passes at the other two levels, and the production verdict
\* differs from them only when a file holds a filter-less user-content
\* output that validate_security_patterns matches.
C2_VerdictAcrossLevels ==
  ScanReturnedUntimed =>
    /\ report[1] = VerdictAt(validation_level)
    /\ VerdictAt("development") = VerdictAt("ultimate")
    /\ VerdictAt("production") => VerdictAt("development")
    /\ ~HasSecurityMatch(liquid_files) => VerdictAt("production") = VerdictAt("development")

\* C2 witness: a production scan that fails on files that pass at
\* development and at ultimate.
C2_Witness ==
  /\ ScanReturnedUntimed
  /\ validation_level = "production"
  /\ report = <<FALSE>>
  /\ VerdictAt("development")
  /\ VerdictAt("ultimate")

C3_AllowList(level) ==
  CASE level = "development" -> {"critical", "error"}
    [] level = "production"  -> {"critical", "error", "warning"}
    [] level = "ultimate"    -> {"critical", "error", "warning", "info"}

\* C3: at level L every issue of the list has a severity of L's allow-list
\* (development: Critical, Error; production: plus Warning; ultimate: any),
\* and an add_issue call with a severity outside it leaves the list as it was.
C3_OnlyAllowedSeverities ==
  /\ \A i \in DOMAIN issues : issues[i].severity \in C3_AllowList(validation_level)
  /\ (last_call.op = "add_issue" /\ last_call.severity \notin C3_AllowList(validation_level))
       => issues = last_before

\* C3 witness: an Info add_issue at production on a list that already holds
\* an issue, which stays as it was.
C3_Witness ==
  /\ validation_level = "production"
  /\ last_call.op = "add_issue"
  /\ last_call.severity = "info"
  /\ issues # <<>>
  /\ issues = last_before

\* C4: in a directory scan no file's failure, exception or timeout stops the
\* scan: when scan_directory is over every file of the list was passed to
\* validate_file once, in list order, and the final report was generated.
C4_ScanNeverStops ==
  (pc \in {"returned", "raised"} /\ liquid_files # <<>>) =>
    (validated = PathsOf(liquid_files) /\ report # <<>>)

\* C5: after a scan, every file the scan counted as failed has at least one
\* issue recorded against its path.
C5_FailedFileHasIssue ==
  pc = "returned" => \A p \in marked_failed : IssuesOf(issues, p) # {}

\* C6: after a scan, every file during whose validation the timer fired has
\* a Warning validation_timeout issue in the issue list.
C6_TimeoutRecorded ==
  pc \in {"returned", "raised"} =>
    \A p \in timer_fired : \E i \in DOMAIN issues :
       issues[i] = ValidationIssue(p, "validation_timeout", "warning")


\* Every opening tag of the paired set has exactly one matching closing tag,
\* in LIFO order: read left to right, with or without whitespace control,
\* each closing tag closes the innermost open tag and none is left open.
RECURSIVE BalancedFrom(_, _)
BalancedFrom(toks, open) ==
  IF toks = <<>> THEN open = <<>>
  ELSE LET t == Head(toks)
       IN IF t.name \notin PAIRED_TAGS THEN BalancedFrom(Tail(toks), open)
          ELSE IF ~t.end THEN BalancedFrom(Tail(toks), Append(open, t.name))
          ELSE /\ open # <<>>
               /\ open[Len(open)] = t.name
               /\ BalancedFrom(Tail(toks), Prefix(open, Len(open) - 1))

Balanced(toks) == BalancedFrom(toks, <<>>)

CountErrorType(iss, error_type) == Cardinality({i \in DOMAIN iss : iss[i].error_type = error_type})

\* C7: on content whose paired tags are balanced, validate_tag_pairing
\* records no issue and returns True.
C7_BalancedHasNoIssue ==
  (tp_pc = "checked" /\ tp_removed = 0 /\ Balanced(tp_content)) =>
    (tp_issues = <<>> /\ tp_result = <<TRUE>>)

\* C8: on balanced content from which one closing tag was removed,
\* validate_tag_pairing records exactly one unclosed_tag issue.
C8_OneUnclosedTag ==
  (tp_pc = "checked" /\ tp_removed # 0 /\ Balanced(tp_original)) =>
    CountErrorType(tp_issues, "unclosed_tag") = 1

AllSettings(schema) ==
  schema.settings \o Flatten([b \in DOMAIN schema.blocks |-> schema.blocks[b].settings])

C9_OverLimit(setting) ==
  LET mn == IF setting.min = <<>> THEN 0 ELSE setting.min[1]
      mx == IF setting.max = <<>> THEN 100 ELSE setting.max[1]
      st == IF setting.step = <<>> THEN 1 ELSE setting.step[1]
  IN setting.type = "range" /\ st > 0 /\ (mx - mn) > 101 * st

\* C9: after validate_file on a file whose schema parses, there is one
\* range issue for each setting of type range with step > 0 and
\* (max - min) / step > 101, and none for any other setting.
C9_RangeIssueIff ==
  (last_call.op = "validate_file" /\ last_call.file[1].content.schema.kind = "object") =>
    LET schema == last_call.file[1].content.schema
        over   == {i \in DOMAIN AllSettings(schema) : C9_OverLimit(AllSettings(schema)[i])}
    IN CountType(issues, {"invalid_range"}) = Cardinality(over)

C10_Unescaped == {"unescaped_block_setting", "unescaped_user_content"}

C10_ErrorCount ==
  Cardinality({i \in DOMAIN issues : issues[i].severity = "error" /\ issues[i].issue_type \in C10_Unescaped})

\* C10: after validate_file, {{ block.settings.heading }} with no filter in
\* plain HTML accounts for exactly one Error unescaped-output issue of the
\* validator's issue list, and with | escape for none.
C10_OneErrorPerOutput ==
  last_call.op = "validate_file" =>
    /\ last_call.file[1].content.outputs = <<HeadingExpr>> => C10_ErrorCount = 1
    /\ last_call.file[1].content.outputs = <<HeadingEscaped>> => C10_ErrorCount = 0


\* validate_file on one section file whose body and schema text refer to
\* settings
TextSettings == {Setting(id, "text", <<>>, <<>>, <<>>) : id \in {"heading", "width"}}

SettingsFiles ==
  {[path |-> [dirs |-> <<"theme", "sections">>, name |-> FileNames[1], ext |-> "liquid"],
    readable |-> TRUE,
    content |-> [BlankContent EXCEPT
                   !.used = u, !.schema_used = su,
                   !.schema = [BlankSchema EXCEPT !.settings = ss, !.blocks = bs, !.disabled_on = d]]] :
     ss \in SeqsUpTo(TextSettings, MaxSettings),
     bs \in {<<>>, <<[type |-> "slide", limit |-> FALSE, id |-> "",
                      settings |-> <<Setting("width", "text", <<>>, <<>>, <<>>)>>]>>},
     u \in SUBSET {"heading", "width", "ghost"}, su \in SUBSET {"ghost"},
     d \in {<<>>, <<(<<"index">>)>>}}

NextSettings == \E file \in SettingsFiles : calls = 0 /\ ValidateFileCall(file)

SpecSettings == Init /\ [][NextSettings]_vars

C11_FlattenedIds(schema) == {AllSettings(schema)[i].id : i \in DOMAIN AllSettings(schema)}

\* C11: after validate_file on a file whose schema parses, there is one
\* undefined_setting Error for each identifier that follows section.settings.
\* or block.settings. in the body outside the schema block and is not a
\* defined setting id (top-level or block-level), and no other.
C11_UndefinedSettingIff ==
  (last_call.op = "validate_file" /\ last_call.file[1].content.schema.kind = "object") =>
    LET content == last_call.file[1].content
    IN Cardinality({i \in DOMAIN issues : issues[i].issue_type = "undefined_setting"
                                          /\ issues[i].severity = "error"})
         = Cardinality(content.used \ C11_FlattenedIds(content.schema))


(***************************************************************************)
(* Schema presence by file type: one validate_file call on a file of each  *)
(* theme directory, with and without a schema block                        *)
(***************************************************************************)
PresencePaths ==
  {[dirs |-> <<"theme", d[1]>>, name |-> d[2], ext |-> d[3]] : d \in
     {<<"sections", "hero.liquid", "liquid">>, <<"blocks", "slide.liquid", "liquid">>,
      <<"sections", "apps.liquid", "liquid">>, <<"sections", "_blocks.liquid", "liquid">>,
      <<"layout", "theme.liquid", "liquid">>, <<"templates", "index.liquid", "liquid">>,
      <<"templates", "index.json", "json">>, <<"snippets", "card.liquid", "liquid">>,
      <<"assets", "base.css", "css">>, <<"config", "settings_data.json", "json">>,
      <<"locales", "en.json", "json">>, <<"misc", "x.liquid", "liquid">>}}

PresenceFiles ==
  {[path |-> p, readable |-> TRUE,
    content |-> [BlankContent EXCEPT !.schema = s, !.legacy_markers = lm, !.routes = r]] :
     p \in PresencePaths, s \in {NoSchema, InvalidSchema, BlankSchema}, lm \in BOOLEAN, r \in BOOLEAN}

NextPresence == \E file \in PresenceFiles : calls = 0 /\ ValidateFileCall(file)

SpecPresence == Init /\ [][NextPresence]_vars

\* The issue types validate_schema_integrity and validate_schema_placement record
SchemaIssueTypes ==
  {"missing_schema", "unexpected_schema", "invalid_schema", "malformed_schema_json",
   "app_block_limit", "app_block_settings", "wrapper_missing_block_type", "wrapper_missing_presets",
   "wrapper_invalid_templates", "excessive_nesting", "invalid_template_name",
   "conflicting_template_restrictions", "section_template_restriction", "undefined_setting", "invalid_range"}

MalformedFiles ==
  {[path |-> [dirs |-> <<"theme", d[1]>>, name |-> d[2], ext |-> "liquid"], readable |-> TRUE,
    content |-> [BlankContent EXCEPT !.schema = s, !.tag_filters = tf, !.used = u, !.outputs = o]] :
     d \in {<<"sections", "hero.liquid">>, <<"blocks", "slide.liquid">>, <<"sections", "apps.liquid">>,
            <<"snippets", "card.liquid">>, <<"misc", "x.liquid">>},
     s \in {InvalidSchema, BlankSchema}, tf \in SUBSET {"color_extract", "escape"},
     u \in SUBSET {"ghost"}, o \in {<<>>, <<HeadingExpr>>}}

NextMalformed == \E file \in MalformedFiles : calls = 0 /\ ValidateFileCall(file)

SpecMalformed == Init /\ [][NextMalformed]_vars

\* The issue types of the checks that need the parsed schema (lines 1711-1777)
SchemaDependentTypes ==
  SchemaIssueTypes \ {"missing_schema", "unexpected_schema", "invalid_schema", "malformed_schema_json"}

NonSchema(iss) == SelectSeq(iss, LAMBDA x : x.issue_type \notin SchemaIssueTypes)

\* the issues of the checks that do not look at the schema block: those
\* validate_file records for the same file without its schema block
BodyIssuesOf(level, file) ==
  NonSchema(validate_file(<<>>, level, [file EXCEPT !.content.schema = NoSchema]).issues)

InvalidSchemaCall == last_call.op = "validate_file" /\ last_call.file[1].content.schema.kind = "invalid"

FilterFiles ==
  {[path |-> [dirs |-> <<"theme", "snippets">>, name |-> "card.liquid", ext |-> "liquid"], readable |-> TRUE,
    content |-> [BlankContent EXCEPT !.tag_filters = tf, !.outputs = o]] :
     tf \in SUBSET {"escape", "img_url", "color_extract", "frobnicate"},
     o \in {<<>>} \cup {<<Expr("product", "title", {f})>> : f \in {"img_url", "color_extract", "frobnicate"}}}

NextFilters == \E file \in FilterFiles : calls = 0 /\ ValidateFileCall(file)

SpecFilters == Init /\ [][NextFilters]_vars

FilterIssueTypes == {"hallucinated_filter", "unknown_filter", "deprecated_filter"}

CountIssue(iss, issue_type, severity) ==
  Cardinality({i \in DOMAIN iss : iss[i].issue_type = issue_type /\ iss[i].severity = severity})

\* the Critical issues of validate_liquid_filters: one per hallucinated name
\* used, one per name used that is neither official nor hallucinated
FilterCriticals ==
  LET used == UsedFilters(last_call.file[1].content)
  IN /\ CountIssue(issues, "hallucinated_filter", "critical") = Cardinality(used \cap HALLUCINATED_FILTERS)
     /\ CountIssue(issues, "unknown_filter", "critical")
          = Cardinality(used \ (OFFICIAL_FILTERS \cup HALLUCINATED_FILTERS))
     /\ CountType(issues, {"hallucinated_filter", "unknown_filter"})
          = Cardinality(used \ OFFICIAL_FILTERS)

\* C14 as stated: after validate_file, every hallucinated filter name used
\* has exactly one Critical issue, every name used that is in neither set
\* exactly one Critical unknown_filter issue, however often it occurs, and
\* the official names used have no filter-related issue at all.
C14_OfficialFiltersSilent ==
  last_call.op = "validate_file" =>
    /\ FilterCriticals
    /\ CountType(issues, FilterIssueTypes) = Cardinality(UsedFilters(last_call.file[1].content) \ OFFICIAL_FILTERS)

\* C14, amended: the same classification, except that an official filter
\* that is also deprecated (img_url) gets one deprecated_filter Warning at
\* the production and ultimate levels.
C14_FilterClassification ==
  last_call.op = "validate_file" =>
    /\ FilterCriticals
    /\ CountType(issues, {"deprecated_filter"}) =
         IF "img_url" \in UsedFilters(last_call.file[1].content) /\ validation_level # "development" THEN 1 ELSE 0
    /\ CountIssue(issues, "deprecated_filter", "warning") = CountType(issues, {"deprecated_filter"})

C14_Witness ==
  /\ last_call.op = "validate_file"
  /\ last_call.file[1].content.tag_filters = {"escape", "img_url", "color_extract", "frobnicate"}
  /\ last_call.file[1].content.outputs = <<Expr("product", "title", {"color_extract"})>>
  /\ CountIssue(issues, "hallucinated_filter", "critical") = 1
  /\ CountIssue(issues, "unknown_filter", "critical") = 1
  /\ CountIssue(issues, "deprecated_filter", "warning") = 1


(***************************************************************************)
(* scan-schema-integrity.py: validate_schema_integrity(file_path) on a     *)
(* section file whose schema parses; its errors list                       *)
(***************************************************************************)
SchemaError(kind, id) == [kind |-> kind, id |-> id]

\* defined_settings: a dict keyed by the truthy ids of the top-level
\* settings; a later setting with the same id replaces the earlier one
TopLevelSettings(schema) ==
  LET ids == {schema.settings[i].id : i \in DOMAIN schema.settings} \ {""}
  IN [id \in ids |-> schema.settings[CHOOSE i \in DOMAIN schema.settings :
                                        /\ schema.settings[i].id = id
                                        /\ \A j \in DOMAIN schema.settings : schema.settings[j].id = id => j <= i]]

extract_liquid_settings_usage(content) == UsedSettings(content)

\* step 7: setting_ids lists the truthy ids of schema.get('settings', [])
duplicate_ids(schema) ==
  {id \in DOMAIN TopLevelSettings(schema) :
     Cardinality({i \in DOMAIN schema.settings : schema.settings[i].id = id}) > 1}

scan_schema_integrity(file) ==
  LET schema    == file.content.schema
      defined   == TopLevelSettings(schema)
      used      == extract_liquid_settings_usage(file.content)
      undefined == SetToSeq((used \ DOMAIN defined) \ DefinedSettings(schema))
      ranged    == SetToSeq({id \in DOMAIN defined : RangeViolation(defined[id])})
      dups      == SetToSeq(duplicate_ids(schema))
  IN [i \in DOMAIN undefined |-> SchemaError("undefined_setting", undefined[i])]
     \o [i \in DOMAIN ranged |-> SchemaError("invalid_range", ranged[i])]
     \o [i \in DOMAIN dups |-> SchemaError("duplicate_setting_id", dups[i])]
     \o Flatten([i \in DOMAIN schema.settings |->
          IF schema.settings[i].id = "" THEN <<SchemaError("missing_id", "")>> ELSE <<>>])

\* validate_schema_integrity(file_path) of scan-schema-integrity.py, called
\* by a client: the errors it found and its return value
ScanSchemaIntegrityCall(file) ==
  /\ calls < MaxCalls
  /\ calls' = calls + 1
  /\ last_before' = issues
  /\ LET errors == scan_schema_integrity(file)
     IN last_call' = [NoCall EXCEPT !.op = "scan_schema_integrity", !.path = <<file.path>>,
                                    !.file = <<file>>, !.result = <<errors, Len(errors) = 0>>]
  /\ UNCHANGED validator_vars
  /\ UNCHANGED <<scan_vars, tag_vars>>

DuplicateFiles ==
  {[path |-> [dirs |-> <<"theme", "sections">>, name |-> "hero.liquid", ext |-> "liquid"],
    readable |-> TRUE,
    content |-> [BlankContent EXCEPT !.used = u,
                   !.schema = [BlankSchema EXCEPT !.settings = ss, !.blocks = bs]]] :
     ss \in SeqsUpTo(TextSettings, MaxSettings),
     bs \in {<<>>} \cup {<<[type |-> "slide", limit |-> FALSE, id |-> "", settings |-> bss]>> :
                           bss \in SeqsUpTo({Setting("width", "text", <<>>, <<>>, <<>>)}, MaxSettings) \ {<<>>}},
     u \in SUBSET {"heading", "width"}}

NextDuplicates ==
  \E file \in DuplicateFiles :
     calls = 0 /\ (ScanSchemaIntegrityCall(file) \/ ValidateFileCall(file))

SpecDuplicates == Init /\ [][NextDuplicates]_vars

\* C15: after the schema of a file was checked, every setting id that
\* appears more than once among the flattened settings (top-level and
\* block-level) has exactly one duplicate-setting-ID Error: in the errors of
\* scan-schema-integrity.py, and in the issue list of validate_file.
C15_OneErrorPerDuplicateId ==
  LET flat  == AllSettings(last_call.file[1].content.schema)
      twice == {id \in {flat[i].id : i \in DOMAIN flat} :
                  Cardinality({i \in DOMAIN flat : flat[i].id = id}) > 1}
  IN /\ last_call.op = "scan_schema_integrity" =>
          \A id \in twice :
             Cardinality({i \in DOMAIN last_call.result[1] :
                            last_call.result[1][i] = SchemaError("duplicate_setting_id", id)}) = 1
     /\ last_call.op = "validate_file" =>
          CountIssue(issues, "duplicate_setting_id", "error") = Cardinality(twice)


(***************************************************************************)
(* @app blocks: one validate_file call on a file whose schema parses       *)
(***************************************************************************)
MaxBlocks == 2

Block(type, limit, settings) == [type |-> type, limit |-> limit, id |-> "", settings |-> settings]

AppBlockKinds ==
  {Block(t, l, <<>>) : t \in {"@app", "slide"}, l \in BOOLEAN}
    \cup {Block("@app", TRUE, <<Setting("width", "text", <<>>, <<>>, <<>>)>>)}

AppBlockFiles ==
  {[path |-> [dirs |-> <<"theme", d[1]>>, name |-> d[2], ext |-> "liquid"], readable |-> TRUE,
    content |-> [BlankContent EXCEPT !.schema = [BlankSchema EXCEPT !.blocks = bs, !.disabled_on = dis]]] :
     d \in {<<"sections", "hero.liquid">>, <<"sections", "apps.liquid">>, <<"snippets", "card.liquid">>},
     bs \in SeqsUpTo(AppBlockKinds, MaxBlocks), dis \in {<<>>, <<(<<"index">>)>>}}

NextAppBlocks == \E file \in AppBlockFiles : calls = 0 /\ ValidateFileCall(file)

SpecAppBlocks == Init /\ [][NextAppBlocks]_vars

AppBlocksWithLimit(schema) == {i \in DOMAIN schema.blocks : schema.blocks[i].type = "@app" /\ schema.blocks[i].limit}

ParsedSchemaCall == last_call.op = "validate_file" /\ last_call.file[1].content.schema.kind = "object"

\* C16 as stated: after validate_file on any file whose schema block is
\* valid JSON, the number of Critical app_block_limit issues equals the
\* number of blocks of type "@app" that declare a limit key.
C16_AppBlockLimitEveryFile ==
  ParsedSchemaCall =>
    /\ CountIssue(issues, "app_block_limit", "critical")
         = Cardinality(AppBlocksWithLimit(last_call.file[1].content.schema))
    /\ CountType(issues, {"app_block_limit"}) = CountIssue(issues, "app_block_limit", "critical")

\* C16, amended: the count holds for the files whose type may carry a
\* schema (section, theme_block, wrapper_section, unknown), also when a
\* later schema check raises; a file of a type that must not have a schema
\* gets no app_block_limit issue, whatever its blocks are.
C16_AppBlockLimitCount ==
  ParsedSchemaCall =>
    LET file == last_call.file[1]
    IN /\ CountIssue(issues, "app_block_limit", "critical")
            = IF should_have_schema(detect_file_type(file.path), file.path, file.content)
                THEN Cardinality(AppBlocksWithLimit(file.content.schema)) ELSE 0
       /\ CountType(issues, {"app_block_limit"}) = CountIssue(issues, "app_block_limit", "critical")

C16_Witness ==
  /\ ParsedSchemaCall
  /\ detect_file_type(last_call.file[1].path) = "section"
  /\ last_call.file[1].content.schema.blocks = <<Block("@app", TRUE, <<>>), Block("slide", TRUE, <<>>)>>
  /\ CountIssue(issues, "app_block_limit", "critical") = 1


(***************************************************************************)
(* Template restrictions and wrapper sections: one validate_file call on a *)
(* section or wrapper section whose schema parses                          *)
(***************************************************************************)
MaxTemplates == 2

TemplateNames == {"index", "bogus", "customers/reset_password"}

\* the value of enabled_on / disabled_on: <<>> when the key is absent,
\* <<templates>> for {"templates": [...]}
Restrictions == {<<>>} \cup {<<tpls>> : tpls \in SeqsUpTo(TemplateNames, MaxTemplates)}

RestrictionFiles ==
  {[path |-> [dirs |-> <<"theme", "sections">>, name |-> n, ext |-> "liquid"], readable |-> TRUE,
    content |-> [BlankContent EXCEPT !.schema =
                   [BlankSchema EXCEPT !.templates = t, !.enabled_on = en, !.disabled_on = dis,
                                       !.presets = w, !.blocks = IF w THEN <<Block("@app", FALSE, <<>>),
                                                                               Block("@theme", FALSE, <<>>)>>
                                                                  ELSE <<>>]]] :
     n \in {"hero.liquid", "apps.liquid", "_blocks.liquid"},
     t \in BOOLEAN, w \in BOOLEAN, en \in Restrictions, dis \in Restrictions}

NextRestrictions == \E file \in RestrictionFiles : calls = 0 /\ ValidateFileCall(file)

SpecRestrictions == Init /\ [][NextRestrictions]_vars

\* C17: after validate_file on a wrapper section (apps.liquid or
\* _blocks.liquid) whose schema contains any of the keys templates,
\* enabled_on or disabled_on, the issue list holds a Critical issue.
C17_WrapperRestrictionCritical ==
  (/\ ParsedSchemaCall
   /\ last_call.file[1].path.name \in WRAPPER_SECTIONS
   /\ LET schema == last_call.file[1].content.schema
      IN schema.templates \/ schema.enabled_on # <<>> \/ schema.disabled_on # <<>>)
    => HasSeverity(issues, {"critical"})

\* C19: validate_template_restrictions, reached by validate_file with any
\* combination of enabled_on and disabled_on, returns without raising and
\* leaves one invalid_template_name Error for each listed template name
\* that is outside the allow-list.
C19_RestrictionsNeverRaise ==
  ParsedSchemaCall =>
    LET schema == last_call.file[1].content.schema
        listed == Get(schema.enabled_on, <<>>) \o Get(schema.disabled_on, <<>>)
    IN /\ last_call.result # <<>>
       /\ CountIssue(issues, "invalid_template_name", "error")
            = Cardinality({i \in DOMAIN listed : InvalidTemplateName(listed[i])})


(***************************************************************************)
(* Static block ids across the files of a directory scan                   *)
(***************************************************************************)
\* validate_static_block_ids(all_schemas): all_schemas as the sequence of
\* [file_path, schema] in insertion order; a block id already seen, in an
\* earlier file or earlier in the same file, is a Critical issue on the
\* file that repeats it.  No method of the validator calls it.
validate_static_block_ids(all_schemas) ==
  LET entries == Flatten([f \in DOMAIN all_schemas |->
                    [b \in DOMAIN all_schemas[f].schema.blocks |->
                       [file_path |-> all_schemas[f].file_path, id |-> all_schemas[f].schema.blocks[b].id]]])
  IN Flatten([k \in DOMAIN entries |->
       IF entries[k].id # "" /\ \E j \in 1..(k - 1) : entries[j].id = entries[k].id
         THEN <<ValidationIssue(entries[k].file_path, "duplicate_static_block_id", "critical")>>
         ELSE <<>>])

StaticBlock(id) == [type |-> "slide", limit |-> FALSE, id |-> id, settings |-> <<>>]

StaticKinds ==
  {[dir |-> "sections", readable |-> TRUE,
    content |-> [BlankContent EXCEPT !.schema = [BlankSchema EXCEPT !.blocks = bs]]] :
     bs \in {<<>>, <<StaticBlock("")>>, <<StaticBlock("b1")>>, <<StaticBlock("b2")>>}}

StaticFileLists ==
  {[i \in 1..n |-> MkFile(ks[i], i)] : <<n, ks>> \in
     UNION {{<<m, k>> : k \in [1..m -> StaticKinds]} : m \in 0..MaxFiles}}

NextStaticIds ==
  \/ \E files \in StaticFileLists : scan_directory(files, 0, 0)
  \/ LoopHead
  \/ VfExtract
  \/ VfBody
  \/ VfSchema
  \/ VfRules
  \/ VfCharenc
  \/ VfVerdict
  \/ TryAfter
  \/ Finally
  \/ LoopExit

SpecStaticIds == Init /\ [][NextStaticIds]_vars

\* the schemas of the scanned files that parse, in scan order
ScannedSchemas ==
  LET parsed == SelectSeq(liquid_files, LAMBDA f : f.readable /\ f.content.schema.kind = "object")
  IN [i \in DOMAIN parsed |-> [file_path |-> parsed[i].path, schema |-> parsed[i].content.schema]]

\* C18: when scan_directory has returned its report, every static block id
\* defined in more than one scanned file has a duplicate_static_block_id
\* issue on the later file.
C18_DuplicateStaticIdFlagged ==
  (pc = "returned" /\ report # <<>>) =>
    LET due == validate_static_block_ids(ScannedSchemas)
    IN \A k \in DOMAIN due : \E i \in DOMAIN issues : issues[i] = due[k]


(***************************************************************************)
(* Nesting depth: one validate_file call on content with n nested tags     *)
(***************************************************************************)
MaxDepth == 9

\* n opening tags and then n closing tags of one name, one tag per line or
\* all the opening tags on one line and all the closing tags on the next
RECURSIVE Repeat(_, _)
Repeat(x, n) == IF n = 0 THEN <<>> ELSE <<x>> \o Repeat(x, n - 1)

NestedLines(n, name, oneline) ==
  IF oneline THEN <<Repeat(Tag(name, FALSE, FALSE), n), Repeat(Tag(name, TRUE, FALSE), n)>>
  ELSE Repeat(<<Tag(name, FALSE, FALSE)>>, n) \o Repeat(<<Tag(name, TRUE, FALSE)>>, n)

NestingFiles ==
  {[path |-> [dirs |-> <<"theme", d[1]>>, name |-> d[2], ext |-> "liquid"], readable |-> TRUE,
    content |-> [BlankContent EXCEPT !.schema = d[3], !.lines = NestedLines(n, name, oneline)]] :
     d \in {<<"snippets", "card.liquid", NoSchema>>, <<"sections", "hero.liquid", BlankSchema>>},
     n \in (MaxDepth - 2)..MaxDepth, name \in {"if", "paginate", "comment"}, oneline \in BOOLEAN}

NextNesting == \E file \in NestingFiles : calls = 0 /\ ValidateFileCall(file)

SpecNesting == Init /\ [][NextNesting]_vars

\* the depth the claim speaks of: opening minus closing tags of the eight
\* tag names, summed line by line; the largest value reached
RECURSIVE ClaimDepth(_, _, _)
ClaimDepth(lines, current, max) ==
  IF lines = <<>> THEN max
  ELSE LET line == Head(lines)
           d == current
                + Cardinality({i \in DOMAIN line : line[i].name \in Range(NestingTags) /\ ~line[i].end})
                - Cardinality({i \in DOMAIN line : line[i].name \in Range(NestingTags) /\ line[i].end})
       IN ClaimDepth(Tail(lines), d, IF d > max THEN d ELSE max)

\* C20: after validate_file at any level, content whose nesting depth of
\* for/if/unless/case/capture/tablerow/paginate/content_for tags exceeds 8
\* has a nesting-depth issue, and content whose depth never exceeds 8 has
\* none.
C20_NestingFlaggedIff ==
  last_call.op = "validate_file" =>
    (ClaimDepth(last_call.file[1].content.lines, 0, 0) > MaxNesting
       <=> CountType(issues, {"excessive_nesting", "excessive_nesting_depth"}) >= 1)


(***************************************************************************)
(* Tags that need no end tag: validate_tag_pairing on texts of opening     *)
(* tags and closing tags of the model                                      *)
(***************************************************************************)
SELF_CLOSING_TAGS ==
  {"assign", "echo", "increment", "decrement", "break", "continue", "include", "render",
   "section", "layout", "cycle", "case", "when", "else", "elsif", "elseif"}

SelfClosingTokens ==
  {Tag(n, FALSE, FALSE) : n \in {"assign", "case", "when", "else", "if"}}
    \union {Tag(n, TRUE, FALSE) : n \in {"case", "if"}}

InitSelfClosing ==
  /\ validation_level = "ultimate"
  /\ issues = <<>>
  /\ files_scanned = 0
  /\ files_failed = 0
  /\ report = <<>>
  /\ InitScan
  /\ InitApi
  /\ tp_content \in SeqsUpTo(SelfClosingTokens, MaxTags)
  /\ tp_issues = <<>>
  /\ tp_result = <<>>
  /\ tp_pc = "ready"
  /\ tp_original = tp_content
  /\ tp_removed = 0
  /\ validation_cache = {}

NextSelfClosing == ValidateTagPairing

SpecSelfClosing == InitSelfClosing /\ [][NextSelfClosing]_vars

\* the tag names the walk over the text leaves on the stack
StackAfter(content) == PairTags(ExtractTags(content), <<>>, <<>>).stack

UnclosedNames(iss) ==
  LET unclosed == SelectSeq(iss, LAMBDA x : x.error_type = "unclosed_tag")
  IN [i \in DOMAIN unclosed |-> unclosed[i].tag]

OnlyOpeningTags(content) == \A i \in DOMAIN content : ~content[i].end /\ ~content[i].dash

enc_validate_file(cv, content, replacement_chars) ==
  LET r == validate_unescaped_output(cv, content.outputs)
  IN IF replacement_chars > 0
       THEN enc_add_issue(r.cv, EncodingIssue("encoding_replacement_chars", "critical"))
       ELSE r.cv

\* The exit code main() computes from the issues left in validator.issues.
encoding_exit_code(kept) ==
  LET critical_count == CountWhere(kept, LAMBDA i : i.severity = "critical")
      error_count    == CountWhere(kept, LAMBDA i : i.severity = "error")
  IN IF critical_count > 0 THEN 2 ELSE IF error_count > 0 THEN 1 ELSE 0

\* main() of character-encoding-validator.py on a target: a path that
\* does not exist or a file that is not .liquid returns 1 at once;
\* otherwise the file is validated, --critical-only replaces
\* validator.issues by its Critical entries, and the exit code is computed
\* from validator.issues.  Result: [found, exit], found being the issues
\* the validation recorded.
encoding_main(target, replacement_chars, critical_only) ==
  IF ~target.exists \/ target.file.path.ext # "liquid" THEN [found |-> <<>>, exit |-> 1]
  ELSE LET cv   == enc_validate_file([issues |-> <<>>], target.file.content, replacement_chars)
           kept == IF critical_only
                     THEN SelectSeq(cv.issues, LAMBDA i : i.severity = "critical")
                     ELSE cv.issues
       IN [found |-> cv.issues, exit |-> encoding_exit_code(kept)]

\* what main() of ultimate-validator.py makes of the outcome r of
\* validate_file: the report is generated and the exit code is
\* "0 if success else 1"; an exception of validate_file ends the run with
\* the interpreter's exit code 1 before the report.
MainOutcome(r, old_report) ==
  [issues |-> r.issues, scanned |-> 1, failed |-> r.failed,
   report |-> IF r.result # <<>> THEN <<generate_final_report(r.issues)>> ELSE old_report,
   exit   |-> IF r.result = <<TRUE>> THEN 0 ELSE 1]

\* main() of ultimate-validator.py on a target: a path that does not exist
\* returns 1; a file is validated with validate_file.
ultimate_main(iss, level, old_report, target) ==
  IF ~target.exists
    THEN [issues |-> iss, scanned |-> 0, failed |-> 0, report |-> old_report, exit |-> 1]
    ELSE MainOutcome(validate_file(iss, level, target.file), old_report)

\* The targets of a command-line run: a .liquid file of the catalog, a
\* file of another suffix, or a path that does not exist.
MainTargets ==
  {[exists |-> x, file |-> f] : x \in BOOLEAN, f \in ApiFiles \union EncodingFiles}
  \union {[exists |-> TRUE, file |-> [f EXCEPT !.path.ext = "json"]] : f \in EncodingFiles}

\* python3 character-encoding-validator.py <target> [--critical-only]
EncodingMainCall(target, replacement_chars, critical_only) ==
  /\ calls = 0
  /\ calls' = calls + 1
  /\ last_before' = issues
  /\ last_call' = [NoCall EXCEPT !.op = "encoding_main", !.path = <<target.file.path>>,
                     !.file = <<target.file>>,
                     !.severity = IF critical_only THEN "critical" ELSE "",
                     !.result = encoding_main(target, replacement_chars, critical_only)]
  /\ UNCHANGED <<validator_vars, scan_vars, tag_vars>>

\* python3 ultimate-validator.py <target> --level <validation_level>
UltimateMainCall(target) ==
  /\ calls = 0
  /\ calls' = calls + 1
  /\ last_before' = issues
  /\ \E m \in {ultimate_main(issues, validation_level, report, target)} :
        /\ issues' = m.issues
        /\ files_scanned' = files_scanned + m.scanned
        /\ files_failed' = files_failed + m.failed
        /\ report' = m.report
        /\ last_call' = [NoCall EXCEPT !.op = "ultimate_main", !.path = <<target.file.path>>,
                           !.file = <<target.file>>,
                           !.result = [found |-> m.issues, exit |-> m.exit]]
  /\ UNCHANGED validation_level
  /\ UNCHANGED <<scan_vars, tag_vars>>

NextMain ==
  \/ \E t \in MainTargets, n \in 0..1, c \in BOOLEAN : EncodingMainCall(t, n, c)
  \/ \E t \in MainTargets : UltimateMainCall(t)

SpecMain == Init /\ [][NextMain]_vars

MainReturned == last_call.op \in {"encoding_main", "ultimate_main"}

\* C22: a validator command-line run exits with 2 if any Critical issue
\* was found, otherwise with 1 if any Error issue was found, otherwise
\* with 0, whatever the flags.
C22_ExitCodeBySeverity ==
  MainReturned =>
    last_call.result.exit =
      (IF HasSeverity(last_call.result.found, {"critical"}) THEN 2
       ELSE IF HasSeverity(last_call.result.found, {"error"}) THEN 1 ELSE 0)


(***************************************************************************)
(* The auto-fix functions: fix_html_entities_in_liquid                     *)
(* (fix-character-encoding-issues.py) and fix_all_escape_issues            *)
(* (comprehensive-escape-fixer.py)                                         *)
(*                                                                         *)
(* A text is a sequence of tokens: "&" followed by "amp;" is the entity    *)
(* &amp;, and so on.  A template is a sequence of output expressions       *)
(* [attr, base, filters, stray]: {{ base | filters }} standing in the      *)
(* attribute attr ("none": in element text), followed by "stray" copies    *)
(* of the text " | escape }}".                                             *)
(***************************************************************************)
MaxText == 3

\* re.sub(r'&name;', repl, text): every "&" "name;" pair, left to right
RECURSIVE ReplaceEntity(_, _, _)
ReplaceEntity(text, name, repl) ==
  IF Len(text) < 2 THEN text
  ELSE IF text[1] = "&" /\ text[2] = name
    THEN <<repl>> \o ReplaceEntity(SubSeq(text, 3, Len(text)), name, repl)
    ELSE <<text[1]>> \o ReplaceEntity(Tail(text), name, repl)

\* the lookahead [^{]*\{% endschema %\}: the first "{" after the position
\* opens {% endschema %}
RECURSIVE EndschemaAhead(_)
EndschemaAhead(rest) ==
  IF rest = <<>> THEN FALSE
  ELSE IF Head(rest) = "{% endschema %}" THEN TRUE
  ELSE IF Head(rest) = "{{ x }}" THEN FALSE
  ELSE EndschemaAhead(Tail(rest))

\* re.sub(r'&amp;(?![^{]*\{% endschema %\})', '&', text)
RECURSIVE ReplaceAmp(_)
ReplaceAmp(text) ==
  IF Len(text) < 2 THEN text
  ELSE IF text[1] = "&" /\ text[2] = "amp;" /\ ~EndschemaAhead(SubSeq(text, 3, Len(text)))
    THEN <<"&">> \o ReplaceAmp(SubSeq(text, 3, Len(text)))
    ELSE <<text[1]>> \o ReplaceAmp(Tail(text))

\* fix_html_entities_in_liquid: the seven substitutions in source order
fix_html_entities_in_liquid(content) ==
  LET c1 == ReplaceEntity(content, "ndash;", "-")
      c2 == ReplaceEntity(c1, "mdash;", "--")
      c3 == ReplaceEntity(c2, "nbsp;", " ")
      c4 == ReplaceAmp(c3)
      c5 == ReplaceEntity(c4, "quot;", "\"")
      c6 == ReplaceEntity(c5, "lt;", "<")
  IN ReplaceEntity(c6, "gt;", ">")

EntityTokens == {"&", "amp;", "nbsp;", "lt;", "{% endschema %}", "a"}

EntityTexts == SeqsUpTo(EntityTokens, MaxText)

\* text_patterns: {{ base }} with no filter, base one of the listed fields
TextPatternFields == {"product.title", "section.settings.heading"}

text_patterns(e) ==
  IF e.filters = <<>> /\ e.base \in TextPatternFields
    THEN [e EXCEPT !.filters = <<"escape">>] ELSE e

\* attribute_patterns: inside aria-label, title or alt, an expression whose
\* text holds title, name, label or heading (or alt, in an alt attribute)
\* is rewritten to {{ <text> | escape }}, whatever filters it has.
AttributeKeyword(e) ==
  \/ e.base \in {"product.title", "section.settings.heading"}
  \/ e.attr = "alt" /\ e.base = "image.alt"

attribute_patterns(e) ==
  IF e.attr \in {"aria-label", "title", "alt"} /\ e.stray = 0 /\ AttributeKeyword(e)
    THEN [e EXCEPT !.filters = Append(@, "escape")] ELSE e

\* specific_fixes: {{ product.description | truncate: N }} has each "}"
\* replaced by " | escape }}"
specific_fixes(e) ==
  IF e.base = "product.description" /\ e.filters = <<"truncate">> /\ e.stray = 0
    THEN [e EXCEPT !.filters = Append(@, "escape"), !.stray = 1] ELSE e

\* fix_all_escape_issues: the three groups, each over the whole content
fix_all_escape_issues(content) ==
  [i \in DOMAIN content |-> specific_fixes(attribute_patterns(text_patterns(content[i])))]

EscapeExprs ==
  {[attr |-> a, base |-> b, filters |-> f, stray |-> 0] :
     a \in {"none", "alt", "class"},
     b \in {"product.title", "image.alt", "product.description", "product.price"},
     f \in {<<>>, <<"escape">>, <<"truncate">>}}

EscapeTemplates == SeqsUpTo(EscapeExprs, MaxOutputs)

\* One run of a fix script over a content: the first run gets a content of
\* the catalog, every later run the content the run before returned.
FixCall(op, content) ==
  /\ calls < MaxCalls
  /\ calls = 0 \/ (last_call.op = op /\ content = last_call.result)
  /\ calls' = calls + 1
  /\ last_before' = issues
  /\ last_call' = [NoCall EXCEPT !.op = op, !.file = content,
                     !.result = IF op = "fix_html_entities_in_liquid"
                                  THEN fix_html_entities_in_liquid(content)
                                  ELSE fix_all_escape_issues(content)]
  /\ UNCHANGED <<validator_vars, scan_vars, tag_vars>>

NextFix ==
  \/ \E c \in EntityTexts : FixCall("fix_html_entities_in_liquid", c)
  \/ \E c \in EscapeTemplates : FixCall("fix_all_escape_issues", c)
  \/ calls > 0 /\ FixCall(last_call.op, last_call.result)

SpecFix == Init /\ [][NextFix]_vars

FixOps == {"fix_html_entities_in_liquid", "fix_all_escape_issues"}

\* C23: applying an auto-fix function to its own output changes nothing,
\* fix(fix(C)) = fix(C): a run on the content the run before returned
\* returns that content.
C23_FixIdempotent ==
  (last_call.op \in FixOps /\ calls >= 2) => last_call.result = last_call.file


(***************************************************************************)
(* The closing-tag branches of validate_tag_pairing                        *)
(***************************************************************************)
\* the stack and the issues of the "for tag in tags" loop after its first
\* k tags
LoopAfter(tags, k) == PairTags(Prefix(tags, k), <<>>, <<>>)

\* the outcome of the closing tag at position k of tags
PopsAt(tags, k) ==
  LET before == LoopAfter(tags, k - 1)
      after  == LoopAfter(tags, k)
  IN /\ after.stack = Prefix(before.stack, Len(before.stack) - 1)
     /\ after.issues = before.issues

RecordsAt(tags, k, error_type) ==
  LET before == LoopAfter(tags, k - 1)
      after  == LoopAfter(tags, k)
  IN /\ after.stack = before.stack
     /\ after.issues = Append(before.issues,
          [error_type |-> error_type, severity |-> "error", tag |-> tags[k].name])

GrowFiles ==
  {MkFile([dir |-> "snippets", readable |-> TRUE,
           content |-> [BlankContent EXCEPT !.routes = TRUE]], 3)}

\* the directories scanned: one file of any kind
GrowLists == {files \in FileLists : Len(files) = 1}

\* between two calls: no scan_directory call is running
BetweenCalls == pc \in {"idle", "returned"}

NextGrow ==
  \/ BetweenCalls /\ AddIssueCall(DirectPath, "custom", "error")
  \/ BetweenCalls /\ \E file \in GrowFiles : ValidateFileCall(file)
  \/ BetweenCalls /\ GenerateFinalReportCall
  \/ \E files \in GrowLists, timeout \in {0, 3} : scan_directory(files, 0, timeout)
  \/ LoopHead
  \/ VfExtract
  \/ VfBody
  \/ VfSchema
  \/ VfRules
  \/ VfCharenc
  \/ VfVerdict
  \/ TryAfter
  \/ HandleTimeout
  \/ HandleException
  \/ Finally
  \/ LoopExit
  \/ TimerPropagates
  \/ TimerInExtract
  \/ TimerInCharenc
  \/ TimerOutsideTry

SpecGrow == Init /\ [][NextGrow]_vars

\* C25: once an issue is in the issue list, no later step of validate_file,
\* scan_directory or generate_final_report removes, moves or changes it:
\* every step leaves the list as it was or extends it at the end.
C25_IssuesOnlyAppend ==
  [][Len(issues') >= Len(issues) /\ Prefix(issues', Len(issues)) = issues]_vars

\* C25 witness: after a scan_directory run that recorded issues, a direct
\* validate_file call on a list that already held issues has added more
\* behind them, and the list still starts with the issues of before the scan.
C25_Witness ==
  /\ pc = "returned"
  /\ last_call.op = "validate_file"
  /\ last_before # <<>>
  /\ Len(issues) > Len(last_before)
  /\ Prefix(issues, Len(last_before)) = last_before
  /\ \E i \in DOMAIN last_before : last_before[i].issue_type = "custom"


(***************************************************************************)
(* The context cascade of _validate_unescaped_output                       *)
(***************************************************************************)
\* output expressions in every combination of contexts
CascadeExprs ==
  {[root |-> r, name |-> "heading", filters |-> f, in_url |-> u, in_attr_text |-> a,
    in_schema |-> s, in_style |-> y, in_class |-> FALSE] :
     r \in {"product", "shop"}, f \in {{}, {"escape"}, {"image_url"}},
     u \in BOOLEAN, a \in BOOLEAN, s \in BOOLEAN, y \in BOOLEAN}

\* validator._validate_unescaped_output(content, file_path) on a new
\* validator
ValidateUnescapedOutputCall(outputs) ==
  /\ calls = 0
  /\ calls' = calls + 1
  /\ last_before' = issues
  /\ last_call' = [NoCall EXCEPT !.op = "_validate_unescaped_output", !.file = outputs,
                     !.result = validate_unescaped_output([issues |-> <<>>], outputs).issues]
  /\ UNCHANGED <<validator_vars, scan_vars, tag_vars>>

NextCascade == \E outputs \in SeqsUpTo(CascadeExprs, MaxOutputs) : ValidateUnescapedOutputCall(outputs)

SpecCascade == Init /\ [][NextCascade]_vars

\* the first context of the priority order that applies to an expression
FirstContext(e) ==
  IF e.in_url THEN "url_attribute"
  ELSE IF "image_url" \in e.filters THEN "url_filter"
  ELSE IF e.in_schema THEN "schema"
  ELSE IF e.in_style THEN "style"
  ELSE "html"

\* the context whose branch creates issues of the type
ContextOfIssue(issue_type) ==
  IF issue_type = "unescaped_attribute_text" THEN "url_attribute"
  ELSE IF issue_type = "unescaped_css_text_content" THEN "style"
  ELSE "html"

\* e2 is e1 with other answers for the contexts after e1's first one
SameUpToFirstContext(e1, e2) ==
  /\ e2.root = e1.root /\ e2.name = e1.name /\ e2.filters = e1.filters
  /\ FirstContext(e2) = FirstContext(e1)
  /\ FirstContext(e1) = "url_attribute" => e2.in_attr_text = e1.in_attr_text

\* C26: for a user-content output expression the contexts are tried in the
\* order URL-bearing attribute, URL-generating filter, schema block, style
\* block, plain HTML, and the first one that applies decides alone: an
\* issue is only of a type its output's first context creates, and
\* changing the later contexts of any output changes nothing.
C26_FirstContextDecides ==
  last_call.op = "_validate_unescaped_output" =>
    LET outputs == last_call.file
        found   == last_call.result
    IN /\ \A t \in {"unescaped_attribute_text", "unescaped_css_text_content",
                    "unescaped_user_content", "unescaped_block_setting"} :
            CountType(found, {t}) <=
              Cardinality({k \in DOMAIN outputs :
                 IsUserContent(outputs[k]) /\ FirstContext(outputs[k]) = ContextOfIssue(t)})
       /\ \A k \in DOMAIN outputs : \A e \in CascadeExprs :
            SameUpToFirstContext(outputs[k], e) =>
              validate_unescaped_output([issues |-> <<>>],
                                        [outputs EXCEPT ![k] = e]).issues = found

\* C26 witness: {{ product.heading }} inside a URL-bearing attribute that
\* also lies in a style block and a schema block: the URL attribute
\* decides, and as the expression is not attribute text nothing is
\* reported, although the style branch would report it.
C26_Witness ==
  /\ last_call.op = "_validate_unescaped_output"
  /\ last_call.file = <<[root |-> "product", name |-> "heading", filters |-> {},
                         in_url |-> TRUE, in_attr_text |-> FALSE, in_schema |-> TRUE,
                         in_style |-> TRUE, in_class |-> FALSE]>>
  /\ last_call.result = <<>>


(***************************************************************************)
(* detect_file_type on paths with several directories                      *)
(***************************************************************************)
MaxDirs == 3

DirNames == {"theme", "layout", "sections", "snippets", "assets"}

DetectPaths ==
  {[dirs |-> d, name |-> n[1], ext |-> n[2]] :
     d \in SeqsUpTo(DirNames, MaxDirs) \ {<<>>},
     n \in {<<"card.liquid", "liquid">>, <<"apps.liquid", "liquid">>, <<"base.css", "css">>}}

\* validator.detect_file_type(file_path, content)
DetectFileTypeCall(path) ==
  /\ calls < MaxCalls
  /\ calls' = calls + 1
  /\ last_before' = issues
  /\ last_call' = [NoCall EXCEPT !.op = "detect_file_type", !.path = <<path>>,
                                 !.result = <<detect_file_type(path)>>]
  /\ UNCHANGED <<validator_vars, scan_vars, tag_vars>>

NextDetect == \E path \in DetectPaths : calls = 0 /\ DetectFileTypeCall(path)

SpecDetect == Init /\ [][NextDetect]_vars

\* the type FILE_TYPE_PATTERNS gives to a file of extension ext standing
\* directly in the theme directory d
TypeInDir(d, ext) ==
  LET hits == {k \in DOMAIN FILE_TYPE_PATTERNS :
                 FILE_TYPE_PATTERNS[k].dir = d /\ ext \in FILE_TYPE_PATTERNS[k].exts}
  IN IF hits = {} THEN "unknown" ELSE FILE_TYPE_PATTERNS[CHOOSE k \in hits : TRUE].type

\* C27: detect_file_type classifies a file by the theme directory that
\* directly contains it, whatever directory names occur earlier in its
\* path, and changes no validator state.  (The two wrapper-section file
\* names, which have a type of their own, are left out.)
C27_TypeByContainingDir ==
  last_call.op = "detect_file_type" =>
    LET path == last_call.path[1]
        d    == path.dirs[Len(path.dirs)]
    IN /\ issues = last_before
       /\ (path.name \notin WRAPPER_SECTIONS /\ d \in Range(theme_dirs))
            => last_call.result = <<TypeInDir(d, path.ext)>>


(***************************************************************************)
(* The result of validate_file and the issues of the call                  *)
(***************************************************************************)
\* the issues the last call appended to the issue list
RecordedByCall == SubSeq(issues, Len(last_before) + 1, Len(issues))

\* C28: validate_file returns True if and only if the validation of that
\* call recorded no Critical or Error issue for the file; issues of
\* earlier calls on the same validator, an earlier validation of the same
\* path included, do not change the result.
C28_ResultByOwnIssues ==
  (last_call.op = "validate_file" /\ last_call.result # <<>>) =>
    (last_call.result = <<TRUE>> <=> ~HasSeverity(RecordedByCall, {"critical", "error"}))


(***************************************************************************)
(* The counters after scan_directory                                       *)
(***************************************************************************)
ScanReturned == pc = "returned" /\ report # <<>>

\* C29: after scan_directory over n files, files_scanned is n and
\* files_failed is the number of those files that did not pass, so
\* files_failed never exceeds files_scanned and the reported passed count
\* files_scanned - files_failed is the number of files that passed.
C29_CountersMatchFiles ==
  ScanReturned =>
    /\ files_scanned = Len(liquid_files)
    /\ files_failed = Cardinality(marked_failed)
    /\ files_failed <= files_scanned
    /\ files_scanned - files_failed = Len(liquid_files) - Cardinality(marked_failed)


(***************************************************************************)
(* validate_content and its validation cache (liquid-syntax-validator.py)  *)
(***************************************************************************)
CacheLimit == 100

\* validate_content(content, file_path, validation_level) on a validator
\* whose cache is "cache": clear_issues, then either the cached result of
\* the key is returned, or the passes of the level run (of them
\* validate_tag_pairing reports on the modelled texts, at the standard and
\* comprehensive levels), the issues are counted by severity and the
\* result is stored while the cache has fewer than 100 entries.
\* Result: [issues, result, cache].
validate_content(cache, content, level) ==
  LET hits == {c \in cache : c.content = content /\ c.level = level}
  IN IF hits # {}
       THEN [issues |-> <<>>, result |-> (CHOOSE c \in hits : TRUE).result, cache |-> cache]
       ELSE LET found == IF level \in {"standard", "comprehensive"}
                           THEN validate_tag_pairing(content).issues ELSE <<>>
                errors   == CountWhere(found, LAMBDA i : i.severity \in {"error", "critical"})
                warnings == CountWhere(found, LAMBDA i : i.severity = "warning")
                results  == [is_valid |-> errors = 0, error_count |-> errors,
                             warning_count |-> warnings]
            IN [issues |-> found, result |-> results,
                cache |-> IF Cardinality(cache) < CacheLimit
                            THEN cache \union {[content |-> content, level |-> level,
                                                result |-> results]}
                            ELSE cache]

\* the texts handed to validate_content
CacheTexts ==
  {<<>>, <<Tag("if", FALSE, FALSE)>>, <<Tag("if", FALSE, FALSE), Tag("if", TRUE, FALSE)>>}

\* validator.validate_content(content, file_path, level)
ValidateContentCall(content, level) ==
  /\ calls < MaxCalls
  /\ calls' = calls + 1
  /\ last_before' = issues
  /\ LET r == validate_content(validation_cache, content, level)
     IN /\ tp_issues' = r.issues
        /\ validation_cache' = r.cache
        /\ last_call' = [NoCall EXCEPT !.op = "validate_content", !.file = content,
                                       !.severity = level, !.result = r.result]
  /\ UNCHANGED <<tp_content, tp_result, tp_pc, tp_original, tp_removed>>
  /\ UNCHANGED <<validator_vars, scan_vars>>

NextContent ==
  \E content \in CacheTexts, level \in {"fast", "standard"} : ValidateContentCall(content, level)

SpecContent == Init /\ [][NextContent]_vars

\* C30: after validate_content returns, computed or served from the cache,
\* the returned is_valid, error_count and warning_count agree with the
\* issues in the syntax validator's issue list.
C30_ResultAgreesWithIssues ==
  last_call.op = "validate_content" =>
    /\ last_call.result.error_count =
         CountWhere(tp_issues, LAMBDA i : i.severity \in {"error", "critical"})
    /\ last_call.result.warning_count =
         CountWhere(tp_issues, LAMBDA i : i.severity = "warning")
    /\ last_call.result.is_valid = (last_call.result.error_count = 0)

====
